---- MODULE Spec2Model ----
(***************************************************************************)
(* A model of the nada static analyzer: the project analyzer               *)
(* (internal/analyzer), the rule engine and its rules (internal/rules),    *)
(* and the scoring pipeline.                                               *)
(*                                                                         *)
(* Go strings that the code inspects character by character (paths,        *)
(* source lines, identifiers) are sequences of one-character strings.      *)
(* Labels the code only compares for equality (severity, kind, rule id)    *)
(* are TLA+ strings.  float64 values are exact rationals [num, den] with   *)
(* den > 0; within the bounds of the model every float64 operation of the  *)
(* code is exact or is compared only against integers it cannot reach by   *)
(* rounding.                                                               *)
(***************************************************************************)
EXTENDS Integers, Sequences, FiniteSets, TLC

VARIABLES
    options,      \* CodeAnalyzer.options (ProjectPath, IncludeTests, ExcludeFiles, Verbose)
    issues,       \* CodeAnalyzer.issues
    metrics,      \* CodeAnalyzer.metrics
    filesCount,   \* CodeAnalyzer.filesCount
    rules,        \* CodeAnalyzer.ruleEngine.rules (rule ids, in registration order)
    stdout,       \* number of lines written to standard output
    pc,           \* "idle", or "walking" while AnalyzeProject is inside filepath.WalkDir
    walk,         \* the callbacks filepath.WalkDir has still to make
    report,       \* the *types.Report AnalyzeProject returned: <<>> is nil, <<r>> is &r
    err,          \* whether the last AnalyzeProject returned a non-nil error
    runs,         \* number of AnalyzeProject calls made on this analyzer
    calls,        \* how many direct calls of each kind the caller has made
    processed,    \* the files the caller has passed to analyzeFile directly, in order
    runStart,     \* the analyzer's fields when the running/last AnalyzeProject began
    before,       \* the analyzer's fields when the last operation began
    last          \* the last operation: its name, its argument, its result

vars == <<options, issues, metrics, filesCount, rules, stdout, pc, walk,
          report, err, runs, calls, processed, runStart, before, last>>

Nil == "nil"

(***************************************************************************)
(* Bounds of the model.                                                    *)
(***************************************************************************)
MaxAddIssue == 2      \* direct addIssue calls on one analyzer
MaxRuns == 2          \* AnalyzeProject calls on one analyzer
MaxRegister == 2      \* RegisterRule calls after NewEngine
MaxEngine == 2        \* direct Engine.AnalyzeFile calls

(***************************************************************************)
(* strings                                                                 *)
(***************************************************************************)
max(a, b) == IF a > b THEN a ELSE b

HasPrefix(s, p) == Len(s) >= Len(p) /\ SubSeq(s, 1, Len(p)) = p

HasSuffix(s, p) == Len(s) >= Len(p) /\ SubSeq(s, Len(s) - Len(p) + 1, Len(s)) = p

\* strings.Contains
Contains(s, sub) ==
    \E i \in 1..(Len(s) - Len(sub) + 1) : SubSeq(s, i, i + Len(sub) - 1) = sub

\* n copies of the character c
Repeat(c, n) == [i \in 1..n |-> c]

RECURSIVE Concat(_)
\* the concatenation of a sequence of sequences
Concat(ss) ==
    IF Len(ss) = 0 THEN <<>>
    ELSE IF Len(ss) = 1 THEN ss[1]
    ELSE LET h == Len(ss) \div 2
         IN  Concat(SubSeq(ss, 1, h)) \o Concat(SubSeq(ss, h + 1, Len(ss)))

\* position of the last "/" of s, 0 if none
LastSlash(s) ==
    IF \E i \in 1..Len(s) : s[i] = "/"
    THEN CHOOSE i \in 1..Len(s) : s[i] = "/" /\ \A j \in (i+1)..Len(s) : s[j] # "/"
    ELSE 0

RECURSIVE StripSlashes(_)
StripSlashes(s) ==
    IF Len(s) > 0 /\ s[Len(s)] = "/" THEN StripSlashes(SubSeq(s, 1, Len(s) - 1)) ELSE s

\* filepath.Base: the last element of the path, trailing separators removed
Base(path) ==
    IF path = <<>> THEN <<".">>
    ELSE LET p == StripSlashes(path)
         IN  IF p = <<>> THEN <<"/">>
             ELSE SubSeq(p, LastSlash(p) + 1, Len(p))

RECURSIVE Match(_, _)
\* filepath.Match for patterns of literal characters, "*" and "?"
Match(pattern, name) ==
    IF pattern = <<>> THEN name = <<>>
    ELSE IF Head(pattern) = "*"
    THEN \E k \in 0..Len(name) :
            /\ \A i \in 1..k : name[i] # "/"
            /\ Match(Tail(pattern), SubSeq(name, k + 1, Len(name)))
    ELSE /\ name # <<>>
         /\ \/ Head(pattern) = "?" /\ Head(name) # "/"
            \/ Head(pattern) = Head(name)
         /\ Match(Tail(pattern), Tail(name))

(***************************************************************************)
(* internal/types                                                          *)
(***************************************************************************)
SeverityLow == "low"
SeverityMedium == "medium"
SeverityHigh == "high"

TypeBug == "bug"
TypeVulnerability == "vulnerability"
TypeCodeSmell == "code_smell"
TypeError == "error"

\* types.Issue; Message, Description, Column, Category and Priority are text
\* no computation reads
Issue(type, severity, file, line, rule, effort) ==
    [Type |-> type, Severity |-> severity, File |-> file, Line |-> line,
     Rule |-> rule, EffortMinutes |-> effort]

\* a float64 as an exact rational
Rat(n, d) == [num |-> n, den |-> d]
RatZero == Rat(0, 1)
RatLess(a, b) == a.num * b.den < b.num * a.den
RatEq(a, b) == a.num * b.den = b.num * a.den
RatGeqInt(a, k) == a.num >= k * a.den
RatLessInt(a, k) == a.num < k * a.den

\* the zero value of types.Metrics
ZeroMetrics == [LinesOfCode |-> 0, CyclomaticComplexity |-> 0, TestCoverage |-> 0]

\* the zero value of types.QualityTrends
ZeroTrends ==
    [CyclomaticComplexityTrend |-> "", IssuesDensity |-> RatZero,
     SecurityScore |-> 0, MaintainabilityIndex |-> 0,
     TechnicalDebtRatio |-> RatZero]

(***************************************************************************)
(* internal/analyzer: the functions of the accumulated state.  ca is the   *)
(* record [issues, metrics, filesCount] of a CodeAnalyzer.                 *)
(***************************************************************************)
\* a Go map[string]int: absent keys read as 0
EmptyMap == [k \in {} |-> 0]
Get(m, k) == IF k \in DOMAIN m THEN m[k] ELSE 0
Inc(m, k) == IF k \in DOMAIN m THEN [m EXCEPT ![k] = @ + 1] ELSE m @@ (k :> 1)

RECURSIVE SummaryLoop(_, _)
SummaryLoop(is, summary) ==
    IF is = <<>> THEN summary
    ELSE SummaryLoop(Tail(is), Inc(Inc(summary, Head(is).Severity), Head(is).Type))

\* getIssuesSummary without the line summary[issue.Type]++
getIssuesSummaryBySeverity(ca) ==
    LET is == ca.issues
    IN  [k \in {is[i].Severity : i \in 1..Len(is)} |->
            Cardinality({i \in 1..Len(is) : is[i].Severity = k})]

getIssuesSummary(ca) == SummaryLoop(ca.issues, EmptyMap)

\* calculateScore without the block "Factor in complexity"
calculateScoreFlat(ca) ==
    IF ca.filesCount = 0 THEN RatZero
    ELSE LET summary == getIssuesSummary(ca)
             score0 == 100 - Get(summary, SeverityHigh) * 10
                           - Get(summary, SeverityMedium) * 5
                           - Get(summary, SeverityLow) * 1
         IN  Rat((IF score0 < 0 THEN 0 ELSE score0) * ca.filesCount, ca.filesCount)

\* calculateScore adding the penalty of the high-severity issues
calculateScoreSignFlipped(ca) ==
    IF ca.filesCount = 0 THEN RatZero
    ELSE LET fc == ca.filesCount
             summary == getIssuesSummary(ca)
             score0 == 100 + Get(summary, SeverityHigh) * 10
                           - Get(summary, SeverityMedium) * 5
                           - Get(summary, SeverityLow) * 1
             cc == ca.metrics.CyclomaticComplexity
             score1 == IF cc > 10 * fc
                       THEN score0 * fc - (cc - 10 * fc) * 2
                       ELSE score0 * fc
             score2 == IF score1 < 0 THEN 0 ELSE score1
             score3 == IF score2 > 100 * fc THEN 100 * fc ELSE score2
         IN  Rat(score3, fc)

calculateScore(ca) ==
    IF ca.filesCount = 0 THEN RatZero
    ELSE LET fc == ca.filesCount
             summary == getIssuesSummary(ca)
             baseScore == 100
             score0 == baseScore - Get(summary, SeverityHigh) * 10
                                 - Get(summary, SeverityMedium) * 5
                                 - Get(summary, SeverityLow) * 1
             \* avgComplexity = CyclomaticComplexity / fc; everything below is
             \* scaled by fc
             cc == ca.metrics.CyclomaticComplexity
             score1 == IF cc > 10 * fc
                       THEN score0 * fc - (cc - 10 * fc) * 2
                       ELSE score0 * fc
             score2 == IF score1 < 0 THEN 0 ELSE score1
             score3 == IF score2 > 100 * fc THEN 100 * fc ELSE score2
         IN  Rat(score3, fc)

\* calculateGrade with > where the code has >=
calculateGradeStrict(score) ==
    IF score.num > 90 * score.den THEN "A"
    ELSE IF score.num > 80 * score.den THEN "B"
    ELSE IF score.num > 70 * score.den THEN "C"
    ELSE IF score.num > 60 * score.den THEN "D"
    ELSE "F"

calculateGrade(score) ==
    IF RatGeqInt(score, 90) THEN "A"
    ELSE IF RatGeqInt(score, 80) THEN "B"
    ELSE IF RatGeqInt(score, 70) THEN "C"
    ELSE IF RatGeqInt(score, 60) THEN "D"
    ELSE "F"

RECURSIVE SumEffort(_)
SumEffort(is) == IF is = <<>> THEN 0 ELSE Head(is).EffortMinutes + SumEffort(Tail(is))

\* calculateQualityTrends with the security score set outside "if ca.filesCount > 0"
calculateQualityTrendsEager(ca) ==
    [ZeroTrends EXCEPT
        !.SecurityScore = max(0, 100 - Get(getIssuesSummary(ca), TypeVulnerability) * 10)]

\* calculateQualityTrends choosing the label by the total complexity
calculateQualityTrendsTotal(ca) ==
    IF ca.filesCount > 0
    THEN LET summary == getIssuesSummary(ca)
             cc == ca.metrics.CyclomaticComplexity
             loc == ca.metrics.LinesOfCode
             securityIssues == Get(summary, TypeVulnerability)
         IN  [CyclomaticComplexityTrend |->
                  IF cc > 15 THEN "Very High - Immediate refactoring needed"
                  ELSE IF cc > 10 THEN "High - Consider refactoring"
                  ELSE IF cc > 5 THEN "Moderate - Monitor closely"
                  ELSE "Good - Well structured code",
              IssuesDensity |->
                  IF loc > 0 THEN Rat(Len(ca.issues) * 1000, loc) ELSE RatZero,
              SecurityScore |-> max(0, 100 - securityIssues * 10),
              MaintainabilityIndex |->
                  max(0, 100 - (securityIssues * 5
                                + Get(summary, "missing_documentation") * 2)),
              TechnicalDebtRatio |->
                  IF loc > 0 THEN Rat(SumEffort(ca.issues) * 1000, 60 * loc)
                  ELSE RatZero]
    ELSE ZeroTrends

calculateQualityTrends(ca) ==
    IF ca.filesCount > 0
    THEN LET fc == ca.filesCount
             summary == getIssuesSummary(ca)
             cc == ca.metrics.CyclomaticComplexity
             loc == ca.metrics.LinesOfCode
             securityIssues == Get(summary, TypeVulnerability)
             maintainabilityDeductions ==
                 securityIssues * 5 + Get(summary, "missing_documentation") * 2
         IN  [CyclomaticComplexityTrend |->
                  IF cc > 15 * fc THEN "Very High - Immediate refactoring needed"
                  ELSE IF cc > 10 * fc THEN "High - Consider refactoring"
                  ELSE IF cc > 5 * fc THEN "Moderate - Monitor closely"
                  ELSE "Good - Well structured code",
              IssuesDensity |->
                  IF loc > 0 THEN Rat(Len(ca.issues) * 1000, loc) ELSE RatZero,
              SecurityScore |-> max(0, 100 - securityIssues * 10),
              MaintainabilityIndex |-> max(0, 100 - maintainabilityDeductions),
              TechnicalDebtRatio |->
                  IF loc > 0 THEN Rat(SumEffort(ca.issues) * 1000, 60 * loc)
                  ELSE RatZero]
    ELSE ZeroTrends

\* generateRecommendations putting the bugs before the vulnerabilities
generateRecommendationsBugsFirst(ca) ==
    LET summary == getIssuesSummary(ca)
        vulnCount == Get(summary, TypeVulnerability)
        bugCount == Get(summary, TypeBug)
        r1 == IF vulnCount > 0 THEN <<[msg |-> "security", n |-> vulnCount]>> ELSE <<>>
        r2 == IF bugCount > 0 THEN <<[msg |-> "bugs", n |-> bugCount]>> ELSE <<>>
        r3 == IF ca.metrics.TestCoverage < 70
              THEN <<[msg |-> "coverage", n |-> ca.metrics.TestCoverage]>> ELSE <<>>
        recommendations == r2 \o r1 \o r3
    IN  IF Len(recommendations) = 0 THEN <<[msg |-> "excellent", n |-> 0]>>
        ELSE recommendations

\* the recommendation strings, as the message and the number formatted into it
generateRecommendations(ca) ==
    LET summary == getIssuesSummary(ca)
        vulnCount == Get(summary, TypeVulnerability)
        bugCount == Get(summary, TypeBug)
        r1 == IF vulnCount > 0 THEN <<[msg |-> "security", n |-> vulnCount]>> ELSE <<>>
        r2 == IF bugCount > 0 THEN <<[msg |-> "bugs", n |-> bugCount]>> ELSE <<>>
        r3 == IF ca.metrics.TestCoverage < 70
              THEN <<[msg |-> "coverage", n |-> ca.metrics.TestCoverage]>> ELSE <<>>
        recommendations == r1 \o r2 \o r3
    IN  IF Len(recommendations) = 0 THEN <<[msg |-> "excellent", n |-> 0]>>
        ELSE recommendations

(***************************************************************************)
(* characters, strings.* helpers and regexp.MatchString                    *)
(***************************************************************************)
UpperChars == <<"A", "B", "C", "D", "E", "F", "G", "H", "I", "J", "K", "L", "M", "N", "O", "P", "Q", "R", "S", "T", "U", "V", "W", "X", "Y", "Z">>
LowerChars == <<"a", "b", "c", "d", "e", "f", "g", "h", "i", "j", "k", "l", "m", "n", "o", "p", "q", "r", "s", "t", "u", "v", "w", "x", "y", "z">>
DigitChars == <<"0", "1", "2", "3", "4", "5", "6", "7", "8", "9">>

IsUpper(c) == \E i \in 1..Len(UpperChars) : UpperChars[i] = c
IsLower(c) == \E i \in 1..Len(LowerChars) : LowerChars[i] = c
IsDigit(c) == \E i \in 1..Len(DigitChars) : DigitChars[i] = c
IsSpace(c) == c \in {" ", "\t", "\n", "\r"}
IsWordChar(c) == IsUpper(c) \/ IsLower(c) \/ IsDigit(c) \/ c = "_"

ToLowerChar(c) ==
    IF IsUpper(c) THEN LowerChars[CHOOSE i \in 1..Len(UpperChars) : UpperChars[i] = c]
    ELSE c
ToUpperChar(c) ==
    IF IsLower(c) THEN UpperChars[CHOOSE i \in 1..Len(LowerChars) : LowerChars[i] = c]
    ELSE c
ToLower(s) == [i \in 1..Len(s) |-> ToLowerChar(s[i])]
ToUpper(s) == [i \in 1..Len(s) |-> ToUpperChar(s[i])]

RECURSIVE TrimLeft(_, _)
TrimLeft(s, cut) == IF s # <<>> /\ Head(s) \in cut THEN TrimLeft(Tail(s), cut) ELSE s
RECURSIVE TrimRight(_, _)
TrimRight(s, cut) ==
    IF s # <<>> /\ s[Len(s)] \in cut THEN TrimRight(SubSeq(s, 1, Len(s) - 1), cut) ELSE s
\* strings.Trim(s, cutset)
Trim(s, cut) == TrimRight(TrimLeft(s, cut), cut)
\* strings.TrimSpace
TrimSpace(s) == Trim(s, {" ", "\t", "\n", "\r"})

\* strings.Index for a one-character needle, 0-based, -1 if absent
Index(s, c) ==
    IF \E i \in 1..Len(s) : s[i] = c
    THEN (CHOOSE i \in 1..Len(s) : s[i] = c /\ \A j \in 1..(i - 1) : s[j] # c) - 1
    ELSE 0 - 1

RECURSIVE Fields(_)
\* strings.Fields: the maximal runs of non-space characters
Fields(s) ==
    LET t == TrimLeft(s, {" ", "\t", "\n", "\r"})
    IN  IF t = <<>> THEN <<>>
        ELSE LET n == IF \E i \in 1..Len(t) : IsSpace(t[i])
                      THEN (CHOOSE i \in 1..Len(t) :
                                IsSpace(t[i]) /\ \A j \in 1..(i - 1) : ~IsSpace(t[j])) - 1
                      ELSE Len(t)
             IN  <<SubSeq(t, 1, n)>> \o Fields(SubSeq(t, n + 1, Len(t)))

\* A regular expression of the code is a sequence of items: a character
\* class repeated between min and max times (more: no upper limit), or the
\* word boundary \b.  Every pattern of the code carries (?i): classes hold
\* lower-case letters and the subject character is folded before the test.
Cls(set, neg, min, maxn, more) ==
    [set |-> set, neg |-> neg, min |-> min, max |-> maxn, more |-> more, wb |-> FALSE]
One(set) == Cls(set, FALSE, 1, 1, FALSE)
Opt(set) == Cls(set, FALSE, 0, 1, FALSE)
Star(set) == Cls(set, FALSE, 0, 0, TRUE)
AnyStar == Cls({}, TRUE, 0, 0, TRUE)
NotAtLeast(set, n) == Cls(set, TRUE, n, n, TRUE)
WB == [set |-> {}, neg |-> FALSE, min |-> 0, max |-> 0, more |-> FALSE, wb |-> TRUE]
Lit(s) == [i \in 1..Len(s) |-> One({ToLowerChar(s[i])})]
Space == {" ", "\t", "\n", "\r"}
Quote == {"\"", "'"}

InClass(c, it) == (ToLowerChar(c) \in it.set) # it.neg

WordAt(s, i) == i >= 1 /\ i <= Len(s) /\ IsWordChar(s[i])

RECURSIVE MatchAt(_, _, _)
\* whether the items match a prefix of s[pos..]
MatchAt(items, s, pos) ==
    IF items = <<>> THEN TRUE
    ELSE LET it == Head(items)
             rest == Len(s) - pos + 1
             top == IF it.more \/ it.max > rest THEN rest ELSE it.max
         IN  IF it.wb
             THEN WordAt(s, pos - 1) # WordAt(s, pos) /\ MatchAt(Tail(items), s, pos)
             ELSE \E k \in it.min..top :
                     /\ \A j \in 0..(k - 1) : InClass(s[pos + j], it)
                     /\ MatchAt(Tail(items), s, pos + k)

\* regexp.MatchString: the pattern matches somewhere in s
MatchString(items, s) == \E pos \in 1..(Len(s) + 1) : MatchAt(items, s, pos)

(***************************************************************************)
(* go/ast: a syntax tree is a record; ast.Inspect visits it in preorder.   *)
(* line is the line of n.Pos().  name: the identifier of a FuncDecl,       *)
(* TypeSpec or Ident.  names: the Names of a ValueSpec.  A FuncDecl with a *)
(* body has lbrace/rbrace, the lines of Body.Lbrace and Body.Rbrace.       *)
(***************************************************************************)
Node(kind, line, kids) ==
    [kind |-> kind, line |-> line, name |-> <<>>, names |-> <<>>,
     hasBody |-> FALSE, lbrace |-> 0, rbrace |-> 0, kids |-> kids]
Ident(name, line) == [Node("Ident", line, <<>>) EXCEPT !.name = name]
FuncDecl(name, line, rbrace, kids) ==
    [Node("FuncDecl", line, kids) EXCEPT
        !.name = name, !.hasBody = TRUE, !.lbrace = line, !.rbrace = rbrace]
FuncDeclNoBody(name, line) == [Node("FuncDecl", line, <<>>) EXCEPT !.name = name]
TypeSpec(name, line) == [Node("TypeSpec", line, <<>>) EXCEPT !.name = name]
ValueSpec(names, line, kids) == [Node("ValueSpec", line, kids) EXCEPT !.names = names]
\* pkg.Sel(args...): the callee is a SelectorExpr
SelectorCall(pkg, sel, line) ==
    Node("CallExpr", line,
         <<Node("SelectorExpr", line, <<Ident(pkg, line), Ident(sel, line)>>)>>)
\* f(args...): the callee is an Ident
IdentCall(name, line) == Node("CallExpr", line, <<Ident(name, line)>>)

RECURSIVE Preorder(_)
\* the nodes ast.Inspect passes to its callback, in order
Preorder(n) == <<n>> \o Concat([i \in 1..Len(n.kids) |-> Preorder(n.kids[i])])

\* what a Rule.Check does: the issues it returns and the lines it prints
Checked(is, out) == [issues |-> is, out |-> out]

(***************************************************************************)
(* internal/rules/structure.go                                             *)
(***************************************************************************)
checkTodoComments(file, lineNum, line) ==
    LET patterns == << Lit(<<"/", "/">>) \o <<Star(Space)>> \o Lit(<<"t", "o", "d", "o">>),
                       Lit(<<"/", "/">>) \o <<Star(Space)>> \o Lit(<<"f", "i", "x", "m", "e">>),
                       Lit(<<"/", "/">>) \o <<Star(Space)>> \o Lit(<<"h", "a", "c", "k">>) >>
    IN  Concat([i \in 1..Len(patterns) |->
            IF MatchString(patterns[i], line)
            THEN <<Issue(TypeCodeSmell, SeverityLow, file, lineNum, "todo_comment", 5)>>
            ELSE <<>>])

checkLineLength(file, lineNum, line) ==
    IF Len(line) > 120
    THEN Checked(<<Issue(TypeCodeSmell, SeverityLow, file, lineNum, "long_line", 2)>>, 1)
    ELSE Checked(<<>>, 0)

checkUnusedCode(file, lineNum, line) ==
    IF Contains(line, <<"i", "m", "p", "o", "r", "t">>) /\ Contains(line, <<"_">>)
    THEN <<Issue(TypeCodeSmell, SeverityLow, file, lineNum, "blank_import", 1)>>
    ELSE <<>>

RECURSIVE SumOut(_)
SumOut(cs) == IF cs = <<>> THEN 0 ELSE Head(cs).out + SumOut(Tail(cs))

StructureRuleCheck(file, node, content) ==
    LET lenCk == [i \in 1..Len(content) |-> checkLineLength(file, i, content[i])]
        is == Concat([i \in 1..Len(content) |->
                  checkTodoComments(file, i, content[i]) \o lenCk[i].issues
                  \o checkUnusedCode(file, i, content[i])])
    IN  \* one "Found long line" per long line, then "Returning issues"
        Checked(is, SumOut(lenCk) + 1)

(***************************************************************************)
(* ErrorHandlingRule (internal/analyzer/analyzer_test.go, second part)     *)
(***************************************************************************)
deprecatedFuncs == {<<"i", "o", "u", "t", "i", "l", ".", "R", "e", "a", "d", "F", "i", "l", "e">>, <<"i", "o", "u", "t", "i", "l", ".", "W", "r", "i", "t", "e", "F", "i", "l", "e">>, <<"i", "o", "u", "t", "i", "l", ".", "R", "e", "a", "d", "A", "l", "l">>}
riskyFuncs == <<<<"o", "s", ".", "O", "p", "e", "n">>, <<"j", "s", "o", "n", ".", "M", "a", "r", "s", "h", "a", "l">>, <<"s", "t", "r", "c", "o", "n", "v", ".", "A", "t", "o", "i">>, <<"h", "t", "t", "p", ".", "G", "e", "t">>>>

\* call.Fun.(*ast.Ident)
FunIsIdent(call) == Len(call.kids) > 0 /\ call.kids[1].kind = "Ident"

checkDeprecatedFunctions(file, call) ==
    IF FunIsIdent(call) /\ call.kids[1].name \in deprecatedFuncs
    THEN <<Issue(TypeCodeSmell, SeverityMedium, file, call.line, "deprecated_function", 2)>>
    ELSE <<>>

checkErrorHandling(file, call) ==
    IF FunIsIdent(call)
    THEN Concat([i \in 1..Len(riskyFuncs) |->
            IF call.kids[1].name = riskyFuncs[i]
            THEN <<Issue(TypeBug, SeverityMedium, file, call.line,
                         "missing_error_handling", 3)>>
            ELSE <<>>])
    ELSE <<>>

ErrorHandlingRuleCheck(file, node, content) ==
    LET ns == Preorder(node)
    IN  Checked(Concat([i \in 1..Len(ns) |->
            IF ns[i].kind = "CallExpr"
            THEN checkDeprecatedFunctions(file, ns[i]) \o checkErrorHandling(file, ns[i])
            ELSE <<>>]), 0)

(***************************************************************************)
(* MockRule (internal/rules/engine_test.go), registered by the tests       *)
(***************************************************************************)
MockRuleCheck(file, node, content) ==
    Checked(<<Issue(TypeCodeSmell, SeverityLow, file, 1, "test_rule", 0)>>, 0)

(***************************************************************************)
(* ComplexityRule (src/unnamed/part_003)                                   *)
(***************************************************************************)
BranchKinds ==
    {"IfStmt", "ForStmt", "RangeStmt", "SwitchStmt", "TypeSwitchStmt", "SelectStmt",
     "CaseClause"}

\* the number of nodes of ns whose kind is in kinds
CountKinds(ns, kinds) == Cardinality({i \in 1..Len(ns) : ns[i].kind \in kinds})

calculateComplexity(fn) == 1 + CountKinds(Preorder(fn), BranchKinds)

checkFunctionComplexity(file, fn) ==
    IF ~fn.hasBody THEN <<>>
    ELSE LET complexity == calculateComplexity(fn)
         IN  IF complexity > 10
             THEN <<Issue(TypeCodeSmell,
                          IF complexity > 15 THEN SeverityHigh ELSE SeverityMedium,
                          file, fn.line, "high_complexity", complexity * 2)>>
             ELSE <<>>

checkFunctionSize(file, fn) ==
    IF ~fn.hasBody THEN <<>>
    ELSE LET lines == fn.rbrace - fn.lbrace
         IN  IF lines > 50
             THEN <<Issue(TypeCodeSmell,
                          IF lines > 100 THEN SeverityHigh ELSE SeverityMedium,
                          file, fn.line, "large_function", lines \div 10)>>
             ELSE <<>>

RECURSIVE IndentLoop(_, _, _)
IndentLoop(line, i, indentLevel) ==
    IF i > Len(line) THEN indentLevel
    ELSE IF line[i] = "\t" THEN IndentLoop(line, i + 1, indentLevel + 1)
    ELSE IF line[i] = " "
    THEN IndentLoop(line, i + 1,
                    IF (indentLevel + 1) % 4 = 0 THEN (indentLevel + 1) \div 4
                    ELSE indentLevel + 1)
    ELSE indentLevel

calculateIndentLevel(line) == IndentLoop(line, 1, 0)

checkDeepNesting(file, stmt, content) ==
    IF stmt.line - 1 < Len(content)
    THEN IF calculateIndentLevel(content[stmt.line]) > 4
         THEN <<Issue(TypeCodeSmell, SeverityMedium, file, stmt.line, "deep_nesting", 5)>>
         ELSE <<>>
    ELSE <<>>

ComplexityRuleCheck(file, node, content) ==
    LET ns == Preorder(node)
    IN  Checked(Concat([i \in 1..Len(ns) |->
            IF ns[i].kind = "FuncDecl"
            THEN checkFunctionComplexity(file, ns[i]) \o checkFunctionSize(file, ns[i])
            ELSE IF ns[i].kind = "IfStmt"
            THEN checkDeepNesting(file, ns[i], content)
            ELSE <<>>]), 0)

(***************************************************************************)
(* DocumentationRule (src/unnamed/part_004)                                *)
(***************************************************************************)
RECURSIVE FuncNameLoop(_, _)
FuncNameLoop(parts, i) ==
    IF i > Len(parts) THEN <<>>
    ELSE IF parts[i] = <<"f", "u", "n", "c">> /\ i + 1 <= Len(parts)
    THEN LET name == parts[i + 1]
             parenIndex == Index(name, "(")
         IN  IF parenIndex > 0 THEN SubSeq(name, 1, parenIndex) ELSE name
    ELSE FuncNameLoop(parts, i + 1)

extractFunctionName(line) == FuncNameLoop(Fields(line), 1)

DocumentationRuleCheck(file, node, content) ==
    Checked(Concat([i \in 1..Len(content) |->
        LET line == content[i]
            funcName == extractFunctionName(line)
        IN  IF /\ HasPrefix(TrimSpace(line), <<"f", "u", "n", "c", " ">>)
               /\ ~Contains(line, <<"f", "u", "n", "c", " ", "m", "a", "i", "n">>)
               /\ ~Contains(line, <<"f", "u", "n", "c", " ", "i", "n", "i", "t">>)
               /\ Contains(line, <<"(">>)
               /\ (i = 1 \/ ~HasPrefix(TrimSpace(content[i - 1]), <<"/", "/">>))
               /\ Len(funcName) > 0 /\ IsUpper(funcName[1])
            THEN <<Issue(TypeCodeSmell, SeverityLow, file, i, "missing_documentation", 3)>>
            ELSE <<>>]), 0)

(***************************************************************************)
(* SecurityRule (src/unnamed/part_002)                                     *)
(***************************************************************************)
\* \s*[:=]\s*["']
Assign == <<Star(Space), One({":", "="}), Star(Space), One(Quote)>>
Sep == <<Opt({"_", "-"})>>

secretPatterns ==
    << Lit(<<"p", "a", "s", "s", "w", "o", "r", "d">>) \o Assign \o <<NotAtLeast(Quote, 3), One(Quote)>>,
       Lit(<<"s", "e", "c", "r", "e", "t">>) \o Assign \o <<NotAtLeast(Quote, 8), One(Quote)>>,
       Lit(<<"a", "p", "i">>) \o Sep \o Lit(<<"k", "e", "y">>) \o Assign \o <<NotAtLeast(Quote, 8), One(Quote)>>,
       Lit(<<"t", "o", "k", "e", "n">>) \o Assign \o <<NotAtLeast(Quote, 16), One(Quote)>>,
       Lit(<<"a", "w", "s">>) \o Sep \o Lit(<<"a", "c", "c", "e", "s", "s">>) \o Sep \o Lit(<<"k", "e", "y">>) \o Assign
           \o <<NotAtLeast(Quote, 1), One(Quote)>>,
       Lit(<<"p", "r", "i", "v", "a", "t", "e">>) \o Sep \o Lit(<<"k", "e", "y">>) \o Assign
           \o <<NotAtLeast(Quote, 1), One(Quote)>> >>

falsePositives ==
    << <<"p", "a", "s", "s", "w", "o", "r", "d", "=", "\"", "\"">>, <<"p", "a", "s", "s", "w", "o", "r", "d", "=", "'", "'">>, <<"s", "e", "c", "r", "e", "t", "=", "\"", "\"">>, <<"s", "e", "c", "r", "e", "t", "=", "'", "'">>,
       <<"t", "o", "k", "e", "n", "=", "\"", "\"">>, <<"t", "o", "k", "e", "n", "=", "'", "'">>, <<"p", "a", "s", "s", "w", "o", "r", "d", "=", "\"", "p", "l", "a", "c", "e", "h", "o", "l", "d", "e", "r", "\"">>,
       <<"p", "a", "s", "s", "w", "o", "r", "d", "=", "\"", "e", "x", "a", "m", "p", "l", "e", "\"">>, <<"p", "a", "s", "s", "w", "o", "r", "d", "=", "\"", "t", "e", "s", "t", "\"">>, <<"p", "a", "s", "s", "w", "o", "r", "d", "=", "\"", "d", "u", "m", "m", "y", "\"">>,
       <<"s", "e", "c", "r", "e", "t", "=", "\"", "p", "l", "a", "c", "e", "h", "o", "l", "d", "e", "r", "\"">>, <<"a", "p", "i", "_", "k", "e", "y", "=", "\"", "y", "o", "u", "r", "_", "k", "e", "y", "_", "h", "e", "r", "e", "\"">>,
       <<"t", "o", "k", "e", "n", "=", "\"", "y", "o", "u", "r", "_", "t", "o", "k", "e", "n", "_", "h", "e", "r", "e", "\"">> >>

isFalsePositive(line) ==
    \/ \E i \in 1..Len(falsePositives) : Contains(ToLower(line), falsePositives[i])
    \/ Contains(line, <<"/", "/">>)
    \/ Contains(line, <<"/", "*">>)

checkHardcodedSecrets(file, lineNum, line) ==
    Concat([i \in 1..Len(secretPatterns) |->
        IF MatchString(secretPatterns[i], line) /\ ~isFalsePositive(line)
        THEN <<Issue(TypeVulnerability, SeverityHigh, file, lineNum, "hardcoded_secret", 10)>>
        ELSE <<>>])

\* %[sv]
Verb == <<One({"%"}), One({"s", "v"})>>
\* fmt\.Sprintf\s*\(\s*["'].*
Sprintf == Lit(<<"f", "m", "t", ".", "S", "p", "r", "i", "n", "t", "f">>) \o <<Star(Space), One({"("}), Star(Space), One(Quote), AnyStar>>

sqlPatterns ==
    << Lit(<<"q", "u", "e", "r", "y">>) \o Assign \o <<AnyStar>> \o Verb \o <<AnyStar, One(Quote)>>,
       Sprintf \o Lit(<<"s", "e", "l", "e", "c", "t">>) \o <<AnyStar>> \o Verb \o <<AnyStar, One(Quote)>>,
       Sprintf \o Lit(<<"i", "n", "s", "e", "r", "t">>) \o <<AnyStar>> \o Verb \o <<AnyStar, One(Quote)>>,
       Sprintf \o Lit(<<"u", "p", "d", "a", "t", "e">>) \o <<AnyStar>> \o Verb \o <<AnyStar, One(Quote)>>,
       Sprintf \o Lit(<<"d", "e", "l", "e", "t", "e">>) \o <<AnyStar>> \o Verb \o <<AnyStar, One(Quote)>>,
       <<One(Quote), AnyStar>> \o Lit(<<"s", "e", "l", "e", "c", "t">>) \o <<AnyStar, One({"+"}), AnyStar, One(Quote)>>,
       <<One(Quote), AnyStar>> \o Lit(<<"i", "n", "s", "e", "r", "t">>) \o <<AnyStar, One({"+"}), AnyStar, One(Quote)>> >>

checkSQLInjection(file, lineNum, line) ==
    Concat([i \in 1..Len(sqlPatterns) |->
        IF MatchString(sqlPatterns[i], line)
        THEN <<Issue(TypeVulnerability, SeverityHigh, file, lineNum, "sql_injection", 15)>>
        ELSE <<>>])

SecurityRuleCheck(file, node, content) ==
    Checked(Concat([i \in 1..Len(content) |->
        checkHardcodedSecrets(file, i, content[i])
        \o checkSQLInjection(file, i, content[i])]), 0)

(***************************************************************************)
(* NamingRule (src/unnamed/part_001)                                       *)
(***************************************************************************)
isValidCamelCase(name) ==
    IF Len(name) = 0 THEN FALSE
    ELSE IF IsUpper(name[1]) THEN TRUE
    ELSE IF Contains(name, <<"_">>) THEN FALSE
    ELSE TRUE

isValidPascalCase(name) ==
    IF Len(name) = 0 THEN FALSE
    ELSE IF ~IsUpper(name[1]) THEN FALSE
    ELSE IF Contains(name, <<"_">>) THEN FALSE
    ELSE TRUE

\* the pattern's text, and the pattern
improperPatterns ==
    << [text |-> <<"(", "?", "i", ")", "\\", "b", "h", "t", "t", "p", "\\", "b">>, re |-> <<WB>> \o Lit(<<"h", "t", "t", "p">>) \o <<WB>>],
       [text |-> <<"(", "?", "i", ")", "\\", "b", "u", "r", "l", "\\", "b">>, re |-> <<WB>> \o Lit(<<"u", "r", "l">>) \o <<WB>>],
       [text |-> <<"(", "?", "i", ")", "\\", "b", "a", "p", "i", "\\", "b">>, re |-> <<WB>> \o Lit(<<"a", "p", "i">>) \o <<WB>>],
       [text |-> <<"(", "?", "i", ")", "\\", "b", "j", "s", "o", "n", "\\", "b">>, re |-> <<WB>> \o Lit(<<"j", "s", "o", "n">>) \o <<WB>>],
       [text |-> <<"(", "?", "i", ")", "\\", "b", "x", "m", "l", "\\", "b">>, re |-> <<WB>> \o Lit(<<"x", "m", "l">>) \o <<WB>>],
       [text |-> <<"(", "?", "i", ")", "\\", "b", "h", "t", "m", "l", "\\", "b">>, re |-> <<WB>> \o Lit(<<"h", "t", "m", "l">>) \o <<WB>>],
       [text |-> <<"(", "?", "i", ")", "\\", "b", "i", "d", "\\", "b">>, re |-> <<WB>> \o Lit(<<"i", "d">>) \o <<WB>>],
       [text |-> <<"(", "?", "i", ")", "\\", "b", "s", "q", "l", "\\", "b">>, re |-> <<WB>> \o Lit(<<"s", "q", "l">>) \o <<WB>>] >>

hasImproperAbbreviations(name) ==
    \E i \in 1..Len(improperPatterns) :
        /\ MatchString(improperPatterns[i].re, name)
        /\ LET properPattern ==
                   ToUpper(Trim(improperPatterns[i].text, {"(", "?", "i", ")", "\\", "b"}))
           IN  ~Contains(name, properPattern)

acceptableShortNames ==
    {<<"i">>, <<"j">>, <<"k">>, <<"n">>, <<"m">>, <<"x">>, <<"y">>, <<"z">>, <<"w">>, <<"h">>, <<"r">>,
     <<"s">>, <<"b">>, <<"t">>, <<"c">>, <<"f">>}

isAcceptableShortName(name) == name \in acceptableShortNames

checkFunctionNaming(file, fn) ==
    LET name == fn.name
    IN  IF name = <<"m", "a", "i", "n">> \/ name = <<"i", "n", "i", "t">> \/ HasPrefix(name, <<"T", "e", "s", "t">>)
           \/ HasPrefix(name, <<"B", "e", "n", "c", "h", "m", "a", "r", "k">>)
        THEN <<>>
        ELSE (IF Len(name) < 2
              THEN <<Issue(TypeCodeSmell, SeverityLow, file, fn.line, "short_function_name", 2)>>
              ELSE <<>>)
          \o (IF ~isValidCamelCase(name)
              THEN <<Issue(TypeCodeSmell, SeverityLow, file, fn.line, "naming_convention", 2)>>
              ELSE <<>>)
          \o (IF hasImproperAbbreviations(name)
              THEN <<Issue(TypeCodeSmell, SeverityLow, file, fn.line,
                           "abbreviation_convention", 2)>>
              ELSE <<>>)

checkVariableNaming(file, decl) ==
    Concat([i \in 1..Len(decl.kids) |->
        IF decl.kids[i].kind = "ValueSpec"
        THEN Concat([j \in 1..Len(decl.kids[i].names) |->
                 LET name == decl.kids[i].names[j]
                 IN  IF ~isAcceptableShortName(name) /\ Len(name) = 1
                     THEN <<Issue(TypeCodeSmell, SeverityLow, file, decl.line,
                                  "short_variable_name", 1)>>
                     ELSE <<>>])
        ELSE <<>>])

checkTypeNaming(file, typeSpec) ==
    LET name == typeSpec.name
    IN  IF Len(name) > 0 /\ IsUpper(name[1]) /\ ~isValidPascalCase(name)
        THEN <<Issue(TypeCodeSmell, SeverityLow, file, typeSpec.line,
                     "type_naming_convention", 2)>>
        ELSE <<>>

NamingRuleCheck(file, node, content) ==
    LET ns == Preorder(node)
    IN  Checked(Concat([i \in 1..Len(ns) |->
            IF ns[i].kind = "FuncDecl" THEN checkFunctionNaming(file, ns[i])
            ELSE IF ns[i].kind = "GenDecl" THEN checkVariableNaming(file, ns[i])
            ELSE IF ns[i].kind = "TypeSpec" THEN checkTypeNaming(file, ns[i])
            ELSE <<>>]), 0)

(***************************************************************************)
(* The file system the analyzer runs on: source files (their bytes as      *)
(* lines, and what parser.ParseFile returns for them) and directory trees. *)
(***************************************************************************)
Source(lines, ast) == [readErr |-> FALSE, parseErr |-> FALSE, lines |-> lines, ast |-> ast]
Block(line, kids) == Node("BlockStmt", line, kids)
Stmt(line, kids) == Node("ExprStmt", line, kids)
If(line, kids) == Node("IfStmt", line, <<Block(line, kids)>>)
Import(line) == Node("GenDecl", line, <<Node("ImportSpec", line, <<>>)>>)
Var(name, line) == Node("GenDecl", line, <<ValueSpec(<<name>>, line, <<>>)>>)

HelloGo ==
    Source(<< <<"p", "a", "c", "k", "a", "g", "e", " ", "m", "a", "i", "n">>,
              <<>>,
              <<"i", "m", "p", "o", "r", "t", " ", "\"", "f", "m", "t", "\"">>,
              <<>>,
              <<"f", "u", "n", "c", " ", "m", "a", "i", "n", "(", ")", " ", "{">>,
              <<"\t", "f", "m", "t", ".", "P", "r", "i", "n", "t", "l", "n", "(", "\"", "H", "e", "l", "l", "o", ",", " ", "W", "o", "r", "l", "d", "!", "\"", ")">>,
              <<"}">> >>,
           Node("File", 1,
                << Import(3),
                   FuncDecl(<<"m", "a", "i", "n">>, 5, 7,
                       <<Block(5, <<Stmt(6, <<SelectorCall(<<"f", "m", "t">>, <<"P", "r", "i", "n", "t", "l", "n">>, 6)>>)>>)>>) >>))

\* a file with an if statement outside any function declaration: inside a
\* function literal that initialises a package-level variable
LitGo ==
    Source(<< <<"p", "a", "c", "k", "a", "g", "e", " ", "m", "a", "i", "n">>,
              <<>>,
              <<"v", "a", "r", " ", "c", "h", "e", "c", "k", " ", "=", " ", "f", "u", "n", "c", "(", "x", " ", "i", "n", "t", ")", " ", "b", "o", "o", "l", " ", "{">>,
              <<"\t", "i", "f", " ", "x", " ", ">", " ", "0", " ", "{">>,
              <<"\t", "\t", "r", "e", "t", "u", "r", "n", " ", "t", "r", "u", "e">>,
              <<"\t", "}">>,
              <<"\t", "r", "e", "t", "u", "r", "n", " ", "f", "a", "l", "s", "e">>,
              <<"}">>,
              <<>>,
              <<"f", "u", "n", "c", " ", "m", "a", "i", "n", "(", ")", " ", "{">>,
              <<"\t", "c", "h", "e", "c", "k", "(", "1", ")">>,
              <<"}">> >>,
           Node("File", 1,
                << Node("GenDecl", 3,
                        <<ValueSpec(<<<<"c", "h", "e", "c", "k">>>>, 3,
                                    <<Node("FuncLit", 3, <<Block(3, <<If(4, <<>>)>>)>>)>>)>>),
                   FuncDecl(<<"m", "a", "i", "n">>, 10, 12,
                       <<Block(10, <<Stmt(11, <<IdentCall(<<"c", "h", "e", "c", "k">>, 11)>>)>>)>>) >>))

AddTestGo ==
    Source(<< <<"p", "a", "c", "k", "a", "g", "e", " ", "m", "a", "i", "n">>,
              <<>>,
              <<"i", "m", "p", "o", "r", "t", " ", "\"", "t", "e", "s", "t", "i", "n", "g", "\"">>,
              <<>>,
              <<"f", "u", "n", "c", " ", "T", "e", "s", "t", "A", "d", "d", "(", "t", " ", "*", "t", "e", "s", "t", "i", "n", "g", ".", "T", ")", " ", "{">>,
              <<"\t", "i", "f", " ", "t", " ", "=", "=", " ", "n", "i", "l", " ", "{">>,
              <<"\t", "\t", "o", "s", ".", "O", "p", "e", "n", "(", "\"", "x", "\"", ")">>,
              <<"\t", "}">>,
              <<"}">> >>,
           Node("File", 1,
                << Import(3),
                   FuncDecl(<<"T", "e", "s", "t", "A", "d", "d">>, 5, 9,
                       <<Block(5, <<If(6, <<Stmt(7, <<SelectorCall(<<"o", "s">>, <<"O", "p", "e", "n">>, 7)>>)>>)>>)>>) >>))

\* the file of TestEngineAnalyzeFile
DeepGo ==
    Source(<< <<"p", "a", "c", "k", "a", "g", "e", " ", "m", "a", "i", "n">>,
              <<>>,
              <<"i", "m", "p", "o", "r", "t", " ", "\"", "f", "m", "t", "\"">>,
              <<>>,
              <<"f", "u", "n", "c", " ", "V", "e", "r", "y", "L", "o", "n", "g", "F", "u", "n", "c", "t", "i", "o", "n", "N", "a", "m", "e", "T", "h", "a", "t", "V", "i", "o", "l", "a", "t", "e", "s", "N", "a", "m", "i", "n", "g", "C", "o", "n", "v", "e", "n", "t", "i", "o", "n", "s", "(", ")", " ", "{">>,
              <<"\t", "/", "/", " ", "T", "O", "D", "O", ":", " ", "f", "i", "x", " ", "t", "h", "i", "s", " ", "l", "a", "t", "e", "r">>,
              <<"\t", "p", "a", "s", "s", "w", "o", "r", "d", " ", ":", "=", " ", "\"", "h", "a", "r", "d", "c", "o", "d", "e", "d", "_", "p", "a", "s", "s", "w", "o", "r", "d", "\"">>,
              <<"\t", "i", "f", " ", "t", "r", "u", "e", " ", "{">>,
              <<"\t", "\t", "i", "f", " ", "t", "r", "u", "e", " ", "{">>,
              <<"\t", "\t", "\t", "i", "f", " ", "t", "r", "u", "e", " ", "{">>,
              <<"\t", "\t", "\t", "\t", "i", "f", " ", "t", "r", "u", "e", " ", "{">>,
              <<"\t", "\t", "\t", "\t", "\t", "i", "f", " ", "t", "r", "u", "e", " ", "{">>,
              <<"\t", "\t", "\t", "\t", "\t", "\t", "f", "m", "t", ".", "P", "r", "i", "n", "t", "l", "n", "(", "\"", "d", "e", "e", "p", "l", "y", " ", "n", "e", "s", "t", "e", "d", "\"", ")">>,
              <<"\t", "\t", "\t", "\t", "\t", "}">>,
              <<"\t", "\t", "\t", "\t", "}">>,
              <<"\t", "\t", "\t", "}">>,
              <<"\t", "\t", "}">>,
              <<"\t", "}">>,
              <<"\t", "f", "m", "t", ".", "P", "r", "i", "n", "t", "l", "n", "(", "p", "a", "s", "s", "w", "o", "r", "d", ")">>,
              <<"}">> >>,
           Node("File", 1,
                << Import(3),
                   FuncDecl(<<"V", "e", "r", "y", "L", "o", "n", "g", "F", "u", "n", "c", "t", "i", "o", "n", "N", "a", "m", "e", "T", "h", "a", "t", "V", "i", "o", "l", "a", "t", "e", "s", "N", "a", "m", "i", "n", "g", "C", "o", "n", "v", "e", "n", "t", "i", "o", "n", "s">>, 5, 20,
                       <<Block(5,
                           << Node("AssignStmt", 7, <<>>),
                              If(8, <<If(9, <<If(10, <<If(11, <<If(12,
                                  <<Stmt(13, <<SelectorCall(<<"f", "m", "t">>, <<"P", "r", "i", "n", "t", "l", "n">>, 13)>>)>>)>>)>>)>>)>>),
                              Stmt(19, <<SelectorCall(<<"f", "m", "t">>, <<"P", "r", "i", "n", "t", "l", "n">>, 19)>>) >>)>>) >>))

SecretGo ==
    Source(<< <<"p", "a", "c", "k", "a", "g", "e", " ", "m", "a", "i", "n">>,
              <<>>,
              <<"v", "a", "r", " ", "a", "p", "i", "K", "e", "y", " ", "=", " ", "\"", "s", "k", "-", "1", "2", "3", "4", "5", "6", "7", "8", "9", "0", "a", "b", "c", "d", "e", "f", "\"">>,
              <<"v", "a", "r", " ", "p", "a", "s", "s", "w", "o", "r", "d", " ", "=", " ", "\"", "h", "u", "n", "t", "e", "r", "2", "h", "u", "n", "t", "e", "r", "2", "\"">>,
              <<>>,
              <<"f", "u", "n", "c", " ", "l", "o", "a", "d", "_", "u", "s", "e", "r", "(", "i", "d", " ", "s", "t", "r", "i", "n", "g", ")", " ", "s", "t", "r", "i", "n", "g", " ", "{">>,
              <<"\t", "r", "e", "t", "u", "r", "n", " ", "\"", "S", "E", "L", "E", "C", "T", " ", "*", " ", "F", "R", "O", "M", " ", "u", "s", "e", "r", "s", " ", "W", "H", "E", "R", "E", " ", "i", "d", " ", "=", " ", "'", "\"", " ", "+", " ", "i", "d", " ", "+", " ", "\"", "'", "\"">>,
              <<"}">> >>,
           Node("File", 1,
                << Var(<<"a", "p", "i", "K", "e", "y">>, 3),
                   Var(<<"p", "a", "s", "s", "w", "o", "r", "d">>, 4),
                   FuncDecl(<<"l", "o", "a", "d", "_", "u", "s", "e", "r">>, 6, 8,
                       <<Block(6, <<Node("ReturnStmt", 7, <<>>)>>)>>) >>))

\* line 3 has 121 characters, line 4 has 120
LongGo ==
    Source(<< <<"p", "a", "c", "k", "a", "g", "e", " ", "l", "i", "b">>,
              <<>>,
              <<"/", "/", " ">> \o Repeat("x", 118),
              <<"/", "/", " ">> \o Repeat("x", 117),
              <<"v", "a", "r", " ", "q", " ", "=", " ", "1">> >>,
           Node("File", 1, <<Var(<<"q">>, 5)>>))

\* a function of n sequential if statements
IfsGo(n) ==
    Source(<< <<"p", "a", "c", "k", "a", "g", "e", " ", "m", "a", "i", "n">>, <<>>, <<"f", "u", "n", "c", " ", "s", "t", "e", "p", "s", "(", "x", " ", "i", "n", "t", ")", " ", "{">> >>
           \o [i \in 1..n |-> <<"\t", "i", "f", " ", "x", " ", ">", " ", "0", " ", "{", " ", "x", "-", "-", " ", "}">>]
           \o << <<"}">> >>,
           Node("File", 1,
                <<FuncDecl(<<"s", "t", "e", "p", "s">>, 3, n + 4,
                      <<Block(3, [i \in 1..n |-> If(i + 3, <<>>)])>>)>>))

MidGo == IfsGo(32)
HugeGo == IfsGo(60)

\* a file the parser rejects
BrokenGo ==
    [readErr |-> FALSE, parseErr |-> TRUE,
     lines |-> << <<"p", "a", "c", "k", "a", "g", "e", " ", "m", "a", "i", "n">>, <<>>, <<"f", "u", "n", "c", " ", "m", "a", "i", "n", "(", ")", " ", "{">>,
                  <<"\t", "f", "m", "t", ".", "P", "r", "i", "n", "t", "l", "n", "(", "\"", "H", "e", "l", "l", "o", " ", "W", "o", "r", "l", "d", "\"">>, <<"}">> >>,
     ast |-> Nil]

\* a file os.ReadFile fails on
Unreadable == [readErr |-> TRUE, parseErr |-> FALSE, lines |-> <<>>, ast |-> Nil]

\* directory entries; the kids of a directory are in lexical order, as
\* os.ReadDir returns them.  denied: os.ReadDir fails on the directory.
File(name, content) ==
    [name |-> name, isDir |-> FALSE, denied |-> FALSE, kids |-> <<>>, content |-> content]
Dir(name, kids) ==
    [name |-> name, isDir |-> TRUE, denied |-> FALSE, kids |-> kids, content |-> Nil]
DeniedDir(name) ==
    [name |-> name, isDir |-> TRUE, denied |-> TRUE, kids |-> <<>>, content |-> Nil]
Other == [readErr |-> FALSE, parseErr |-> TRUE, lines |-> <<>>, ast |-> Nil]

\* the trees below the working directory
Roots ==
    << Dir(<<"p", "r", "o", "j">>,
           << Dir(<<".", "g", "i", "t">>, <<File(<<"h", "o", "o", "k", ".", "g", "o">>, HelloGo)>>),
              File(<<"a", ".", "g", "o">>, HelloGo),
              File(<<"a", "_", "t", "e", "s", "t", ".", "g", "o">>, AddTestGo),
              File(<<"b", "a", "d", ".", "g", "o">>, BrokenGo),
              File(<<"d", "e", "e", "p", ".", "g", "o">>, DeepGo),
              Dir(<<"d", "o", "c", "s">>, <<File(<<"r", "e", "a", "d", "m", "e", ".", "m", "d">>, Other)>>),
              File(<<"g", "e", "n", ".", "g", "o">>, SecretGo),
              File(<<"l", "i", "b", ".", "g", "o">>, LongGo),
              File(<<"l", "o", "c", "k", "e", "d", ".", "g", "o">>, Unreadable),
              Dir(<<"m", "y", "v", "e", "n", "d", "o", "r">>, <<File(<<"d", "e", "p", ".", "g", "o">>, HelloGo)>>),
              Dir(<<"v", "e", "n", "d", "o", "r">>, <<File(<<"d", "e", "p", ".", "g", "o">>, HelloGo)>>) >>),
       Dir(<<"e", "m", "p", "t", "y">>, <<>>),
       Dir(<<"d", "o", "c", "s">>, <<File(<<"r", "e", "a", "d", "m", "e", ".", "m", "d">>, Other)>>),
       DeniedDir(<<"s", "e", "a", "l", "e", "d">>),
       Dir(<<"p", "a", "r", "t">>,
           << File(<<"a", ".", "g", "o">>, HelloGo), DeniedDir(<<"s", "u", "b">>), File(<<"z", ".", "g", "o">>, HelloGo) >>),
       Dir(<<"n", "o", "s", "r", "c">>, << File(<<"n", "o", "t", "e", "s", ".", "t", "x", "t">>, Other), DeniedDir(<<"s", "u", "b">>) >>),
       Dir(<<"m", "i", "d">>,
           << File(<<"a", ".", "g", "o">>, HelloGo), File(<<"b", ".", "g", "o">>, HelloGo), File(<<"m", ".", "g", "o">>, MidGo) >>),
       Dir(<<"b", "i", "g">>, <<File(<<"h", "u", "g", "e", ".", "g", "o">>, HugeGo)>>),
       Dir(<<"l", "i", "t">>, <<File(<<"l", "i", "t", ".", "g", "o">>, LitGo)>>),
       Dir(<<"e", "r", "r", "s">>, << File(<<"b", "1", ".", "g", "o">>, BrokenGo), File(<<"b", "2", ".", "g", "o">>, Unreadable) >>),
       File(<<"o", "n", "e", ".", "g", "o">>, BrokenGo) >>

\* filepath.Join(dir, name)
Join(dir, name) == dir \o <<"/">> \o name

\* a callback of filepath.WalkDir: fn(path, d, err); d is nil when noEntry
Callback(path, isDir, noEntry, error) ==
    [path |-> path, isDir |-> isDir, noEntry |-> noEntry, err |-> error]

RECURSIVE walkDir(_, _)
\* the callbacks filepath.walkDir makes for entry d at path, while fn returns nil
walkDir(path, d) ==
    <<Callback(path, d.isDir, FALSE, FALSE)>>
    \o (IF ~d.isDir THEN <<>>
        ELSE IF d.denied THEN <<Callback(path, TRUE, FALSE, TRUE)>>
        ELSE Concat([i \in 1..Len(d.kids) |-> walkDir(Join(path, d.kids[i].name), d.kids[i])]))

\* the callbacks filepath.WalkDir(root, fn) makes while fn returns nil
WalkDir(root) ==
    IF \E i \in 1..Len(Roots) : Roots[i].name = root
    THEN walkDir(root, Roots[CHOOSE i \in 1..Len(Roots) : Roots[i].name = root])
    ELSE <<Callback(root, FALSE, TRUE, TRUE)>>  \* os.Lstat(root) failed

RECURSIVE filesUnder(_, _)
\* the regular files of the tree d at path, as <<path, content>>
filesUnder(path, d) ==
    IF ~d.isDir THEN {<<path, d.content>>}
    ELSE UNION {filesUnder(Join(path, d.kids[i].name), d.kids[i]) : i \in 1..Len(d.kids)}

AllFiles == UNION {filesUnder(Roots[i].name, Roots[i]) : i \in 1..Len(Roots)}

\* os.ReadFile(path) followed by parser.ParseFile
ReadFile(path) ==
    IF \E f \in AllFiles : f[1] = path
    THEN (CHOOSE f \in AllFiles : f[1] = path)[2]
    ELSE Unreadable

(***************************************************************************)
(* internal/rules/engine.go                                                *)
(***************************************************************************)
DefaultRules ==
    <<"complexity", "security", "naming", "structure", "documentation", "error_handling">>

\* RegisterRule refusing a rule that is registered already
RegisterRuleOnce(rs, rule) ==
    IF \E i \in 1..Len(rs) : rs[i] = rule THEN rs ELSE Append(rs, rule)

RegisterRule(rs, rule) == Append(rs, rule)

RECURSIVE RegisterAll(_, _)
RegisterAll(rs, new) ==
    IF new = <<>> THEN rs ELSE RegisterAll(RegisterRule(rs, Head(new)), Tail(new))

NewEngine == RegisterAll(<<>>, DefaultRules)

\* rule.Check, dispatched on the rule's type
RuleCheck(rule, file, node, content) ==
    CASE rule = "complexity" -> ComplexityRuleCheck(file, node, content)
      [] rule = "security" -> SecurityRuleCheck(file, node, content)
      [] rule = "naming" -> NamingRuleCheck(file, node, content)
      [] rule = "structure" -> StructureRuleCheck(file, node, content)
      [] rule = "documentation" -> DocumentationRuleCheck(file, node, content)
      [] rule = "error_handling" -> ErrorHandlingRuleCheck(file, node, content)
      [] rule = "test_rule" -> MockRuleCheck(file, node, content)

\* rule.Check on every parsed file of the file system, computed once
AllRules == {DefaultRules[i] : i \in 1..Len(DefaultRules)} \cup {"test_rule"}
CheckTable ==
    {<<rule, f[1], RuleCheck(rule, f[1], f[2].ast, f[2].lines)>> :
        rule \in AllRules, f \in {g \in AllFiles : ~g[2].readErr /\ ~g[2].parseErr}}

\* rule.Check(file, node, content, fset), read from the table when it is there
Lookup(table, rule, file, node, content) ==
    IF \E t \in table : t[1] = rule /\ t[2] = file /\ ReadFile(file).ast = node
    THEN (CHOOSE t \in table : t[1] = rule /\ t[2] = file)[3]
    ELSE RuleCheck(rule, file, node, content)

Check(rule, file, node, content) == Lookup(CheckTable, rule, file, node, content)

RECURSIVE AnalyzeLoop(_, _, _, _, _)
AnalyzeLoop(rs, filePath, node, content, all) ==
    IF rs = <<>> THEN all
    ELSE LET c == Check(Head(rs), filePath, node, content)
         IN  AnalyzeLoop(Tail(rs), filePath, node, content,
                         Checked(all.issues \o c.issues, all.out + c.out))

\* Engine.AnalyzeFile: the issues it returns and the lines it prints
EngineAnalyzeFile(rs, filePath, node, content) ==
    AnalyzeLoop(rs, filePath, node, content, Checked(<<>>, 0))

(***************************************************************************)
(* internal/analyzer: the operations.  ca holds the mutable fields of a    *)
(* CodeAnalyzer (issues, metrics, filesCount, the engine's rules) and the  *)
(* lines written to standard output.                                       *)
(***************************************************************************)
New ==
    [issues |-> <<>>, metrics |-> ZeroMetrics, filesCount |-> 0, rules |-> NewEngine,
     stdout |-> 0]

addIssue(ca, issue) == [ca EXCEPT !.issues = Append(@, issue)]

calculateFileComplexity(node) ==
    CountKinds(Preorder(node), BranchKinds \cup {"FuncDecl"})

\* updateMetrics estimating the coverage anew from each file
updateMetricsPerFile(ca, content, node) ==
    [ca EXCEPT !.metrics =
        [LinesOfCode |-> @.LinesOfCode + Len(content),
         CyclomaticComplexity |-> @.CyclomaticComplexity + calculateFileComplexity(node),
         TestCoverage |->
             IF \E i \in 1..Len(content) : Contains(content[i], <<"f", "u", "n", "c", " ", "T", "e", "s", "t">>)
             THEN (ca.filesCount * 100) \div max(ca.filesCount, 1)
             ELSE 0]]

\* updateMetrics spreading the coverage estimate over the files counted so far
updateMetricsDiluted(ca, content, node) ==
    [ca EXCEPT !.metrics =
        [LinesOfCode |-> @.LinesOfCode + Len(content),
         CyclomaticComplexity |-> @.CyclomaticComplexity + calculateFileComplexity(node),
         TestCoverage |->
             IF \E i \in 1..Len(content) : Contains(content[i], <<"f", "u", "n", "c", " ", "T", "e", "s", "t">>)
             THEN 100 \div max(ca.filesCount, 1)
             ELSE @.TestCoverage]]

updateMetrics(ca, content, node) ==
    LET m1 == [ca.metrics EXCEPT
                  !.LinesOfCode = @ + Len(content),
                  !.CyclomaticComplexity = @ + calculateFileComplexity(node)]
        m2 == IF \E i \in 1..Len(content) : Contains(content[i], <<"f", "u", "n", "c", " ", "T", "e", "s", "t">>)
              THEN [m1 EXCEPT !.TestCoverage =
                        (ca.filesCount * 100) \div max(ca.filesCount, 1)]
              ELSE m1
    IN  [ca EXCEPT !.metrics = m2]

\* analyzeRead counting the lines of a file that does not parse
analyzeReadCounting(ca1, filePath, f) ==
    IF f.readErr
    THEN addIssue(ca1, Issue(TypeError, SeverityHigh, filePath, 1, "read_error", 1))
    ELSE IF f.parseErr
    THEN addIssue([ca1 EXCEPT !.metrics.LinesOfCode = @ + Len(f.lines)],
                  Issue(TypeError, SeverityHigh, filePath, 1, "parse_error", 1))
    ELSE updateMetrics(ca1, f.lines, f.ast)

\* analyzeRead grading a file that cannot be read or parsed as critical
analyzeReadCritical(ca1, filePath, f) ==
    IF f.readErr
    THEN addIssue(ca1, Issue(TypeError, "critical", filePath, 1, "read_error", 1))
    ELSE IF f.parseErr
    THEN addIssue(ca1, Issue(TypeError, "critical", filePath, 1, "parse_error", 1))
    ELSE updateMetrics(ca1, f.lines, f.ast)

\* analyzeFile once the file is counted and announced: ca1 is the analyzer
\* then, f what os.ReadFile and parser.ParseFile make of the file
analyzeRead(ca1, filePath, f) ==
    IF f.readErr
    THEN addIssue(ca1, Issue(TypeError, SeverityHigh, filePath, 1, "read_error", 1))
    ELSE IF f.parseErr
    THEN addIssue(ca1, Issue(TypeError, SeverityHigh, filePath, 1, "parse_error", 1))
    ELSE updateMetrics(ca1, f.lines, f.ast)

\* ca.issues = append(ca.issues, fileIssues...), with what the rules printed
appendIssues(ca1, fileIssues) ==
    [ca1 EXCEPT !.issues = @ \o fileIssues.issues, !.stdout = @ + fileIssues.out]

\* the rule engine's part of analyzeFile, which only a parsed file reaches
applyRules(ca1, filePath, f) ==
    IF f.readErr \/ f.parseErr THEN ca1
    ELSE appendIssues(ca1, EngineAnalyzeFile(ca1.rules, filePath, f.ast, f.lines))

counted(ca, opts) ==
    [ca EXCEPT !.filesCount = @ + 1, !.stdout = @ + (IF opts.Verbose THEN 1 ELSE 0)]

analyzeFile(ca, opts, filePath) ==
    analyzeRead(applyRules(counted(ca, opts), filePath, ReadFile(filePath)),
                filePath, ReadFile(filePath))

\* walkFunc: the analyzer afterwards, whether it returned an error, and whether
\* it called analyzeFile
Walked(ca, error, analyzed) == [ca |-> ca, err |-> error, analyzed |-> analyzed]

walkFunc(ca, opts, cb) ==
    IF cb.err THEN Walked(ca, TRUE, FALSE)
    ELSE IF cb.isDir \/ ~HasSuffix(cb.path, <<".", "g", "o">>) THEN Walked(ca, FALSE, FALSE)
    ELSE IF Contains(cb.path, <<"v", "e", "n", "d", "o", "r", "/">>) \/ Contains(cb.path, <<".", "g", "i", "t", "/">>)
    THEN Walked(ca, FALSE, FALSE)
    ELSE IF ~opts.IncludeTests /\ HasSuffix(cb.path, <<"_", "t", "e", "s", "t", ".", "g", "o">>) THEN Walked(ca, FALSE, FALSE)
    ELSE IF \E i \in 1..Len(opts.ExcludeFiles) : Match(opts.ExcludeFiles[i], Base(cb.path))
    THEN Walked(ca, FALSE, FALSE)
    ELSE Walked(analyzeFile(ca, opts, cb.path), FALSE, TRUE)

\* the Report AnalyzeProject assembles once the walk is over
MakeReport(ca, opts) ==
    LET score == calculateScore(ca)
    IN  [ProjectPath |-> opts.ProjectPath,
         Issues |-> ca.issues,
         Metrics |-> ca.metrics,
         FilesAnalyzed |-> ca.filesCount,
         IssuesSummary |-> getIssuesSummary(ca),
         Score |-> score,
         Grade |-> calculateGrade(score),
         Trends |-> calculateQualityTrends(ca),
         Recommendations |-> generateRecommendations(ca)]

\* shouldFailBuild failing the build on grade D as well
shouldFailBuildOnD(r) ==
    IF Get(r.IssuesSummary, SeverityHigh) > 0 THEN TRUE
    ELSE IF Get(r.IssuesSummary, TypeVulnerability) > 0 THEN TRUE
    ELSE IF r.Grade \in {"D", "F"} THEN TRUE
    ELSE FALSE

\* the quality gate of the command line
shouldFailBuild(r) ==
    IF Get(r.IssuesSummary, SeverityHigh) > 0 THEN TRUE
    ELSE IF Get(r.IssuesSummary, TypeVulnerability) > 0 THEN TRUE
    ELSE IF r.Grade = "F" THEN TRUE
    ELSE FALSE

(***************************************************************************)
(* The state machine: one analyzer, built by New(options), and a caller    *)
(* that makes the calls the tests and the command line make.               *)
(***************************************************************************)
Opts(path, includeTests, excludeFiles, verbose) ==
    [ProjectPath |-> path, IncludeTests |-> includeTests, ExcludeFiles |-> excludeFiles,
     Verbose |-> verbose]

OptionSet ==
    {Opts(<<"p", "r", "o", "j">>, t, x, FALSE) :
        t \in BOOLEAN, x \in {<<>>, <<<<"g", "e", "n", "*">>>>, <<<<"*", "_", "t", "e", "s", "t", ".", "g", "o">>, <<"v", "e", "n", "d", "o", "r", "/", "*">>>>}}
    \cup {Opts(<<"p", "r", "o", "j">>, TRUE, <<>>, TRUE)}
    \cup {Opts(p, FALSE, <<>>, FALSE) :
            p \in {<<"e", "m", "p", "t", "y">>, <<"d", "o", "c", "s">>, <<"s", "e", "a", "l", "e", "d">>, <<"p", "a", "r", "t">>, <<"n", "o", "s", "r", "c">>, <<"m", "i", "d">>, <<"b", "i", "g">>, <<"l", "i", "t">>,
                   <<"e", "r", "r", "s">>, <<"o", "n", "e", ".", "g", "o">>, <<"g", "o", "n", "e">>}}

\* the issues the tests add directly
TestIssues ==
    { Issue("", SeverityHigh, <<>>, 0, "", 0),
      Issue(TypeBug, SeverityMedium, <<>>, 0, "", 0),
      Issue(TypeVulnerability, SeverityHigh, <<>>, 0, "", 30) }

\* the files the caller passes to Engine.AnalyzeFile directly
EnginePaths == {<<"p", "r", "o", "j", "/", "a", ".", "g", "o">>, <<"p", "r", "o", "j", "/", "l", "i", "b", ".", "g", "o">>, <<"p", "r", "o", "j", "/", "d", "e", "e", "p", ".", "g", "o">>}

\* the rules the caller registers after NewEngine
ExtraRules == {"test_rule", "structure"}

CA == [issues |-> issues, metrics |-> metrics, filesCount |-> filesCount,
       rules |-> rules, stdout |-> stdout]

Install(ca) ==
    /\ issues' = ca.issues
    /\ metrics' = ca.metrics
    /\ filesCount' = ca.filesCount
    /\ rules' = ca.rules
    /\ stdout' = ca.stdout

Init ==
    /\ options \in OptionSet
    /\ issues = New.issues
    /\ metrics = New.metrics
    /\ filesCount = New.filesCount
    /\ rules = New.rules
    /\ stdout = New.stdout
    /\ pc = "idle"
    /\ walk = <<>>
    /\ report = <<>>
    /\ err = FALSE
    /\ runs = 0
    /\ calls = [add |-> 0, register |-> 0, engine |-> 0]
    /\ processed = <<>>
    /\ runStart = New
    /\ before = New
    /\ last = [op |-> "New", arg |-> Nil, ret |-> Nil, analyzed |-> FALSE]

\* ca.addIssue(issue), called directly
AddIssueCall(issue) ==
    /\ pc = "idle"
    /\ calls.add < MaxAddIssue
    /\ Install(addIssue(CA, issue))
    /\ calls' = [calls EXCEPT !.add = @ + 1]
    /\ before' = CA
    /\ last' = [op |-> "addIssue", arg |-> issue, ret |-> Nil, analyzed |-> FALSE]
    /\ UNCHANGED <<options, pc, walk, report, err, runs, processed, runStart>>

\* engine.RegisterRule(rule)
RegisterRuleCall(rule) ==
    /\ pc = "idle"
    /\ calls.register < MaxRegister
    /\ Install([CA EXCEPT !.rules = RegisterRule(@, rule)])
    /\ calls' = [calls EXCEPT !.register = @ + 1]
    /\ before' = CA
    /\ last' = [op |-> "RegisterRule", arg |-> rule, ret |-> Nil, analyzed |-> FALSE]
    /\ UNCHANGED <<options, pc, walk, report, err, runs, processed, runStart>>

\* what the caller sees of engine.AnalyzeFile: the issues returned, the lines printed
EngineReturn(path, res) ==
    /\ Install([CA EXCEPT !.stdout = @ + res.out])
    /\ last' = [op |-> "Engine.AnalyzeFile", arg |-> path, ret |-> res.issues, analyzed |-> FALSE]

\* engine.AnalyzeFile(path, node, content, fset) on a parsed file, called directly
EngineAnalyzeFileCall(path) ==
    /\ pc = "idle"
    /\ calls.engine < MaxEngine
    /\ EngineReturn(path, EngineAnalyzeFile(rules, path, ReadFile(path).ast,
                                            ReadFile(path).lines))
    /\ calls' = [calls EXCEPT !.engine = @ + 1]
    /\ before' = CA
    /\ UNCHANGED <<options, pc, walk, report, err, runs, processed, runStart>>

\* One callback of the walk of AnalyzeProject, and, when the walk ends with
\* it, AnalyzeProject's return: (nil, error) if walkFunc returned the error,
\* (report, nil) after the last callback.
WalkReturn(r, cbs) ==
    /\ Install(r.ca)
    /\ last' = [op |-> "walkFunc", arg |-> Head(cbs), ret |-> r.err,
                analyzed |-> r.analyzed]
    /\ IF r.err
       THEN /\ pc' = "idle" /\ walk' = <<>> /\ report' = <<>> /\ err' = TRUE
       ELSE IF Tail(cbs) = <<>>
       THEN /\ pc' = "idle" /\ walk' = <<>> /\ err' = FALSE
            /\ report' = <<MakeReport(r.ca, options)>>
       ELSE /\ pc' = "walking" /\ walk' = Tail(cbs) /\ report' = <<>> /\ err' = FALSE

WalkCallback(ca, cbs) == WalkReturn(walkFunc(ca, options, Head(cbs)), cbs)

\* AnalyzeProject starting from cleared issues, metrics and file count
AnnouncedReset(ca) ==
    [ca EXCEPT !.issues = New.issues, !.metrics = New.metrics,
               !.filesCount = New.filesCount,
               !.stdout = @ + (IF options.Verbose THEN 1 ELSE 0)]

\* the analyzer once AnalyzeProject has announced the project
Announced(ca) == [ca EXCEPT !.stdout = @ + (IF options.Verbose THEN 1 ELSE 0)]

\* ca.AnalyzeProject(): up to the return of the first callback
AnalyzeProjectCall ==
    /\ pc = "idle"
    /\ runs < MaxRuns
    /\ WalkCallback(Announced(CA), WalkDir(options.ProjectPath))
    /\ runs' = runs + 1
    /\ runStart' = CA
    /\ before' = Announced(CA)
    /\ UNCHANGED <<options, calls, processed>>

\* the next callback of the walk
WalkNext ==
    /\ pc = "walking"
    /\ WalkCallback(CA, walk)
    /\ before' = CA
    /\ UNCHANGED <<options, runs, calls, processed, runStart>>

\* the analyzer, as the command line and the analyzer's tests drive it
Next ==
    \/ \E issue \in TestIssues : AddIssueCall(issue)
    \/ AnalyzeProjectCall
    \/ WalkNext

Spec == Init /\ [][Next]_vars

(***************************************************************************)
(* The analyzer as TestAnalyzeFile drives it: analyzeFile called directly, *)
(* one file after the other, in an order the caller chooses.               *)
(***************************************************************************)
\* the files the caller passes to analyzeFile, each at most once
FileOrder ==
    << <<"p", "r", "o", "j", "/", "a", ".", "g", "o">>, <<"p", "r", "o", "j", "/", "a", "_", "t", "e", "s", "t", ".", "g", "o">>, <<"p", "r", "o", "j", "/", "b", "a", "d", ".", "g", "o">>, <<"p", "r", "o", "j", "/", "d", "e", "e", "p", ".", "g", "o">>,
       <<"p", "r", "o", "j", "/", "l", "o", "c", "k", "e", "d", ".", "g", "o">>, <<"b", "i", "g", "/", "h", "u", "g", "e", ".", "g", "o">> >>
FilePaths == {FileOrder[i] : i \in 1..Len(FileOrder)}

\* ca.analyzeFile(path), called directly
AnalyzeFileCall(path) ==
    /\ pc = "idle"
    /\ \A i \in 1..Len(processed) : processed[i] # path
    /\ Install(analyzeFile(CA, options, path))
    /\ processed' = Append(processed, path)
    /\ before' = CA
    /\ last' = [op |-> "analyzeFile", arg |-> path, ret |-> Nil, analyzed |-> TRUE]
    /\ UNCHANGED <<options, pc, walk, report, err, runs, calls, runStart>>

\* ca := New(options) of TestAnalyzeFile
InitFiles ==
    /\ Init
    /\ options = Opts(<<"p", "r", "o", "j">>, TRUE, <<>>, FALSE)

NextFiles ==
    \/ \E path \in FilePaths : AnalyzeFileCall(path)

SpecFiles == InitFiles /\ [][NextFiles]_vars

\* the rule engine on its own, as the tests of internal/rules drive it
NextEngine ==
    \/ \E rule \in ExtraRules : RegisterRuleCall(rule)
    \/ \E path \in EnginePaths : EngineAnalyzeFileCall(path)

SpecEngine == Init /\ [][NextEngine]_vars

(***************************************************************************)
(* The rules on their own, as the tests of the rules drive them: a caller  *)
(* hands a rule a parsed file and keeps the issues it returns.             *)
(***************************************************************************)
\* the most if statements, and the most clauses of a switch or a select, of
\* a function handed to ComplexityRule
MaxIfs == 12
MaxClauses == 2

\* the functions handed to ComplexityRule: ifs sequential if statements,
\* fors for loops, a switch of cases case clauses (none if 0) and a select
\* of comms communication clauses (none if 0)
Shapes == [ifs : 0..MaxIfs, fors : 0..1, cases : 0..MaxClauses, comms : 0..MaxClauses]

\* the lines of a switch or select statement with n clauses
ClauseLines(head, clause, n) ==
    IF n = 0 THEN <<>> ELSE <<head>> \o [i \in 1..n |-> clause] \o <<<<"\t", "}">>>>

\* the node of a switch or select statement at line with n clauses
ClauseStmt(kind, clauseKind, line, n) ==
    IF n = 0 THEN <<>>
    ELSE <<Node(kind, line,
                <<Block(line, [i \in 1..n |-> Node(clauseKind, line + i, <<>>)])>>)>>

\* the first line of the switch and of the select of a function of shape s
SwitchLine(s) == 4 + s.ifs + s.fors
SelectLine(s) == SwitchLine(s) + (IF s.cases = 0 THEN 0 ELSE s.cases + 2)

\* the file holding one function of shape s
ShapeGo(s) ==
    Source(<< <<"p", "a", "c", "k", "a", "g", "e", " ", "m", "a", "i", "n">>, <<>>, <<"f", "u", "n", "c", " ", "s", "t", "e", "p", "s", "(", "x", " ", "i", "n", "t", ",", " ", "c", "h", " ", "c", "h", "a", "n", " ", "i", "n", "t", ")", " ", "{">> >>
           \o [i \in 1..s.ifs |-> <<"\t", "i", "f", " ", "x", " ", ">", " ", "0", " ", "{", " ", "x", "-", "-", " ", "}">>]
           \o [i \in 1..s.fors |-> <<"\t", "f", "o", "r", " ", "x", " ", ">", " ", "9", " ", "{", " ", "x", "-", "-", " ", "}">>]
           \o ClauseLines(<<"\t", "s", "w", "i", "t", "c", "h", " ", "x", " ", "{">>, <<"\t", "c", "a", "s", "e", " ", "1", ":">>, s.cases)
           \o ClauseLines(<<"\t", "s", "e", "l", "e", "c", "t", " ", "{">>, <<"\t", "c", "a", "s", "e", " ", "<", "-", "c", "h", ":">>, s.comms)
           \o << <<"}">> >>,
           Node("File", 1,
                <<FuncDecl(<<"s", "t", "e", "p", "s">>, 3,
                      SelectLine(s) + (IF s.comms = 0 THEN 0 ELSE s.comms + 2),
                      <<Block(3, [i \in 1..s.ifs |-> If(i + 3, <<>>)]
                                 \o [i \in 1..s.fors |->
                                        Node("ForStmt", 3 + s.ifs + i,
                                             <<Block(3 + s.ifs + i, <<>>)>>)]
                                 \o ClauseStmt("SwitchStmt", "CaseClause", SwitchLine(s),
                                               s.cases)
                                 \o ClauseStmt("SelectStmt", "CommClause", SelectLine(s),
                                               s.comms))>>)>>))

\* the assignments of a string to a name handed to SecurityRule: the name,
\* the assignment sign as written, the string, and what follows it
Secrets ==
    [name : {<<"p", "a", "s", "s", "w", "o", "r", "d">>, <<"P", "a", "s", "s", "w", "o", "r", "d">>, <<"s", "e", "c", "r", "e", "t">>},
     assign : {<<" ", ":", "=", " ">>, <<":", "=">>, <<" ", "=", " ">>, <<"=">>},
     value : {<<"h", "a", "r", "d", "c", "o", "d", "e", "d", "_", "p", "a", "s", "s", "w", "o", "r", "d", "_", "1", "2", "3">>, <<"p", "w">>, <<"t", "e", "s", "t">>},
     note : {<<>>, <<" ", "/", "/", " ", "d", "e", "v", " ", "o", "n", "l", "y">>}]

\* the line of the assignment s
SecretLine(s) == <<"\t">> \o s.name \o s.assign \o <<"\"">> \o s.value \o <<"\"">> \o s.note

\* the file holding the assignment s in its one function
SecretFileGo(s) ==
    Source(<< <<"p", "a", "c", "k", "a", "g", "e", " ", "m", "a", "i", "n">>, <<>>, <<"f", "u", "n", "c", " ", "m", "a", "i", "n", "(", ")", " ", "{">>, SecretLine(s), <<"}">> >>,
           Node("File", 1,
                <<FuncDecl(<<"m", "a", "i", "n">>, 3, 5,
                      <<Block(3, <<Node("AssignStmt", 4, <<Ident(s.name, 4)>>)>>)>>)>>))

\* a function of a package: pkg.sel, imported from path
Callee(path, pkg, sel) == [path |-> path, pkg |-> pkg, sel |-> sel]

\* the functions called in the files handed to ErrorHandlingRule
Callees ==
    {Callee(<<"o", "s">>, <<"o", "s">>, <<"O", "p", "e", "n">>), Callee(<<"e", "n", "c", "o", "d", "i", "n", "g", "/", "j", "s", "o", "n">>, <<"j", "s", "o", "n">>, <<"M", "a", "r", "s", "h", "a", "l">>),
     Callee(<<"s", "t", "r", "c", "o", "n", "v">>, <<"s", "t", "r", "c", "o", "n", "v">>, <<"A", "t", "o", "i">>), Callee(<<"n", "e", "t", "/", "h", "t", "t", "p">>, <<"h", "t", "t", "p">>, <<"G", "e", "t">>),
     Callee(<<"i", "o", "/", "i", "o", "u", "t", "i", "l">>, <<"i", "o", "u", "t", "i", "l">>, <<"R", "e", "a", "d", "F", "i", "l", "e">>),
     Callee(<<"i", "o", "/", "i", "o", "u", "t", "i", "l">>, <<"i", "o", "u", "t", "i", "l">>, <<"W", "r", "i", "t", "e", "F", "i", "l", "e">>),
     Callee(<<"i", "o", "/", "i", "o", "u", "t", "i", "l">>, <<"i", "o", "u", "t", "i", "l">>, <<"R", "e", "a", "d", "A", "l", "l">>), Callee(<<"f", "m", "t">>, <<"f", "m", "t">>, <<"P", "r", "i", "n", "t", "l", "n">>)}

\* the calls handed to ErrorHandlingRule: the function called, how many times
\* in a row, and whether its package is imported with a dot (the call is
\* then written without the package name)
Calls == [fn : Callees, times : 1..2, dot : BOOLEAN]

\* the call expression of c at line
CallNode(c, line) ==
    IF c.dot THEN IdentCall(c.fn.sel, line) ELSE SelectorCall(c.fn.pkg, c.fn.sel, line)

\* the file making the calls c in its one function
CallsGo(c) ==
    Source(<< <<"p", "a", "c", "k", "a", "g", "e", " ", "m", "a", "i", "n">>,
              <<"i", "m", "p", "o", "r", "t", " ">> \o (IF c.dot THEN <<".", " ">> ELSE <<>>) \o <<"\"">> \o c.fn.path \o <<"\"">>,
              <<"f", "u", "n", "c", " ", "m", "a", "i", "n", "(", ")", " ", "{">> >>
           \o [i \in 1..c.times |->
                  <<"\t">> \o (IF c.dot THEN <<>> ELSE c.fn.pkg \o <<".">>) \o c.fn.sel \o <<"(", "x", ")">>]
           \o << <<"}">> >>,
           Node("File", 1,
                << Import(2),
                   FuncDecl(<<"m", "a", "i", "n">>, 3, 4 + c.times,
                       <<Block(3, [i \in 1..c.times |->
                                      Stmt(3 + i, <<CallNode(c, 3 + i)>>)])>>) >>))

\* the most tabs and the most spaces before an if statement handed to
\* ComplexityRule
MaxTabs == 5
MaxSpaces == 8

\* the leading whitespace of the line of an if statement: tabs and spaces,
\* the tabs before the spaces or after them
Indents == [tabs : 0..MaxTabs, spaces : 0..MaxSpaces, tabsFirst : BOOLEAN]

\* the line of an if statement after the whitespace w
IndentLine(w) ==
    (IF w.tabsFirst
     THEN [i \in 1..w.tabs |-> "\t"] \o [i \in 1..w.spaces |-> " "]
     ELSE [i \in 1..w.spaces |-> " "] \o [i \in 1..w.tabs |-> "\t"])
    \o <<"i", "f", " ", "x", " ", ">", " ", "0", " ", "{">>

\* the file holding one if statement after the whitespace w
IndentGo(w) ==
    Source(<< <<"p", "a", "c", "k", "a", "g", "e", " ", "m", "a", "i", "n">>, <<>>, <<"f", "u", "n", "c", " ", "m", "a", "i", "n", "(", ")", " ", "{">>, IndentLine(w), <<"\t", "}">>, <<"}">> >>,
           Node("File", 1, <<FuncDecl(<<"m", "a", "i", "n">>, 3, 6, <<Block(3, <<If(4, <<>>)>>)>>)>>))

\* the file name the tests of the rules pass
RulePath == <<"t", "e", "s", "t", ".", "g", "o">>

\* what the caller keeps of a call of a rule with the input arg
RuleReturn(op, arg, checked) ==
    /\ last' = [op |-> op, arg |-> arg, ret |-> checked.issues, analyzed |-> FALSE]
    /\ stdout' = stdout + checked.out
    /\ before' = CA
    /\ UNCHANGED <<options, issues, metrics, filesCount, rules, pc, walk, report, err,
                   runs, calls, processed, runStart>>

\* what the table holds for the input arg
Return(table, arg) == (CHOOSE t \in table : t[1] = arg)[2]

\* rule.Check(file, node, content, fset) of a ComplexityRule
ComplexityCheck(f) == ComplexityRuleCheck(RulePath, f.ast, f.lines)

\* what the rule returns on each function handed to it (a rule keeps no state)
ComplexityTable == {<<s, ComplexityCheck(ShapeGo(s))>> : s \in Shapes}

ComplexityCheckCall(s) ==
    /\ pc = "idle"
    /\ RuleReturn("ComplexityRule.Check", s, Return(ComplexityTable, s))

\* rule.Check(file, node, content, fset) of a SecurityRule
SecurityCheck(f) == SecurityRuleCheck(RulePath, f.ast, f.lines)

\* what the rule returns on each assignment handed to it
SecurityTable == {<<s, SecurityCheck(SecretFileGo(s))>> : s \in Secrets}

SecurityCheckCall(s) ==
    /\ pc = "idle"
    /\ RuleReturn("SecurityRule.Check", s, Return(SecurityTable, s))

\* rule.Check(file, node, content, fset) of an ErrorHandlingRule
ErrorHandlingCheck(f) == ErrorHandlingRuleCheck(RulePath, f.ast, f.lines)

\* what the rule returns on each file of calls handed to it
ErrorHandlingTable == {<<c, ErrorHandlingCheck(CallsGo(c))>> : c \in Calls}

ErrorHandlingCheckCall(c) ==
    /\ pc = "idle"
    /\ RuleReturn("ErrorHandlingRule.Check", c, Return(ErrorHandlingTable, c))

\* what the rule returns on each indented if statement handed to it
IndentTable == {<<w, ComplexityCheck(IndentGo(w))>> : w \in Indents}

\* ComplexityRule.Check on an indented if statement
IndentCheckCall(w) ==
    /\ pc = "idle"
    /\ RuleReturn("checkDeepNesting", w, Return(IndentTable, w))

\* the names of the function declarations handed to NamingRule
FuncNames ==
    {<<"l", "o", "a", "d", "U", "s", "e", "r">>, <<"l", "o", "a", "d", "_", "u", "s", "e", "r">>, <<"L", "o", "a", "d", "U", "s", "e", "r">>, <<"L", "o", "a", "d", "_", "U", "s", "e", "r">>, <<"m", "a", "i", "n">>, <<"i", "n", "i", "t">>,
     <<"T", "e", "s", "t", "_", "p", "a", "r", "s", "e">>, <<"B", "e", "n", "c", "h", "m", "a", "r", "k", "_", "r", "u", "n">>, <<"T", "e", "s", "t", "P", "a", "r", "s", "e">>, <<"_", "h", "e", "l", "p", "e", "r">>, <<"G", "e", "t", "_">>, <<"r", "u", "n">>}

\* the file declaring one function of the name
NameGo(name) ==
    Source(<< <<"p", "a", "c", "k", "a", "g", "e", " ", "m", "a", "i", "n">>, <<>>, <<"f", "u", "n", "c", " ">> \o name \o <<"(", ")", " ", "{">>, <<"}">> >>,
           Node("File", 1, <<FuncDecl(name, 3, 4, <<Block(3, <<>>)>>)>>))

\* rule.Check(file, node, content, fset) of a NamingRule
NamingCheck(f) == NamingRuleCheck(RulePath, f.ast, f.lines)

\* what the rule returns on each function name handed to it
NamingTable == {<<n, NamingCheck(NameGo(n))>> : n \in FuncNames}

NamingCheckCall(n) ==
    /\ pc = "idle"
    /\ RuleReturn("NamingRule.Check", n, Return(NamingTable, n))

NextRules ==
    \/ \E s \in Shapes : ComplexityCheckCall(s)
    \/ \E s \in Secrets : SecurityCheckCall(s)
    \/ \E c \in Calls : ErrorHandlingCheckCall(c)
    \/ \E w \in Indents : IndentCheckCall(w)
    \/ \E n \in FuncNames : NamingCheckCall(n)

\* the tests of the rules build no analyzer of their own: one fresh state
InitRules ==
    /\ Init
    /\ options = Opts(<<"e", "m", "p", "t", "y">>, FALSE, <<>>, FALSE)

SpecRules == InitRules /\ [][NextRules]_vars

(***************************************************************************)
(* The quality gate: the command line hands the report it has to           *)
(* shouldFailBuild; the tests hand it reports built by hand.               *)
(***************************************************************************)
\* the most issues of one severity or kind a summary handed to the gate counts
MaxCount == 2

\* a map[string]int holding the counts that are not zero
SummaryOf(high, medium, low, vulnerability) ==
    LET count == [k \in {SeverityHigh, SeverityMedium, SeverityLow, TypeVulnerability} |->
                     IF k = SeverityHigh THEN high
                     ELSE IF k = SeverityMedium THEN medium
                     ELSE IF k = SeverityLow THEN low
                     ELSE vulnerability]
    IN  [k \in {x \in DOMAIN count : count[x] > 0} |-> count[k]]

\* types.Report{}
ZeroReport ==
    [ProjectPath |-> <<>>, Issues |-> <<>>, Metrics |-> New.metrics, FilesAnalyzed |-> 0,
     IssuesSummary |-> EmptyMap, Score |-> RatZero, Grade |-> "", Trends |-> ZeroTrends,
     Recommendations |-> <<>>]

\* the reports handed to the gate: a grade and a summary
GateReports ==
    {[ZeroReport EXCEPT !.Grade = g, !.IssuesSummary = SummaryOf(h, m, l, v)] :
        g \in {"A", "B", "C", "D", "F"}, h \in 0..MaxCount, m \in 0..MaxCount,
        l \in 0..MaxCount, v \in 0..MaxCount}

\* shouldFailBuild(report)
ShouldFailBuildCall ==
    /\ pc = "idle"
    /\ report # <<>>
    /\ last.op = "New"
    /\ last' = [op |-> "shouldFailBuild", arg |-> Nil,
                ret |-> shouldFailBuild(report[1]), analyzed |-> FALSE]
    /\ before' = CA
    /\ UNCHANGED <<options, issues, metrics, filesCount, rules, stdout, pc, walk, report,
                   err, runs, calls, processed, runStart>>

InitGate ==
    /\ options = Opts(<<"e", "m", "p", "t", "y">>, FALSE, <<>>, FALSE)
    /\ issues = New.issues
    /\ metrics = New.metrics
    /\ filesCount = New.filesCount
    /\ rules = New.rules
    /\ stdout = New.stdout
    /\ pc = "idle"
    /\ walk = <<>>
    /\ report \in {<<r>> : r \in GateReports}
    /\ err = FALSE
    /\ runs = 0
    /\ calls = [add |-> 0, register |-> 0, engine |-> 0]
    /\ processed = <<>>
    /\ runStart = New
    /\ before = New
    /\ last = [op |-> "New", arg |-> Nil, ret |-> Nil, analyzed |-> FALSE]

NextGate == ShouldFailBuildCall

SpecGate == InitGate /\ [][NextGate]_vars

(***************************************************************************)
(* package main (src/main.go): the analyzer of the root package, which     *)
(* holds its checks itself and has no options.                             *)
(***************************************************************************)
\* NewCodeAnalyzer()
MainNew ==
    [issues |-> <<>>, metrics |-> [ZeroMetrics EXCEPT !.TestCoverage = RatZero],
     filesCount |-> 0, rules |-> <<>>, stdout |-> 0]

\* the issue a function's complexity yields, and the complexity
MainAnalyzeFunctionComplexity(filePath, fn) ==
    IF ~fn.hasBody THEN [issues |-> <<>>, complexity |-> 0]
    ELSE LET complexity == 1 + CountKinds(Preorder(fn), BranchKinds)
         IN  [issues |->
                  IF complexity > 10
                  THEN <<Issue(TypeCodeSmell,
                               IF complexity > 15 THEN SeverityHigh ELSE SeverityMedium,
                               filePath, fn.line, "high_complexity", 10)>>
                  ELSE <<>>,
              complexity |-> complexity]

\* ^[A-Z][a-z]*([A-Z][a-z]*)*$ : an uppercase letter, then letters only
MainGoName(name) ==
    /\ Len(name) >= 1
    /\ IsUpper(name[1])
    /\ \A i \in 1..Len(name) : IsUpper(name[i]) \/ IsLower(name[i])

MainCheckFunctionNaming(filePath, fn) ==
    LET name == fn.name
    IN  (IF Len(name) < 2
         THEN <<Issue(TypeCodeSmell, SeverityLow, filePath, fn.line, "short_function_name", 2)>>
         ELSE <<>>)
        \o (IF /\ Contains(name, <<"U", "R", "L">>) \/ Contains(name, <<"H", "T", "T", "P">>) \/ Contains(name, <<"A", "P", "I">>)
               /\ ~MainGoName(name)
            THEN <<Issue(TypeCodeSmell, SeverityLow, filePath, fn.line,
                         "naming_convention", 2)>>
            ELSE <<>>)

MainCheckFunctionSize(filePath, fn) ==
    IF ~fn.hasBody THEN <<>>
    ELSE LET lines == fn.rbrace - fn.lbrace
         IN  IF lines > 50
             THEN <<Issue(TypeCodeSmell,
                          IF lines > 100 THEN SeverityHigh ELSE SeverityMedium,
                          filePath, fn.line, "large_function", 8)>>
             ELSE <<>>

MainCheckDeepNesting(filePath, stmt, content) ==
    IF stmt.line - 1 < Len(content)
    THEN IF IndentLoop(content[stmt.line], 1, 0) > 4
         THEN <<Issue(TypeCodeSmell, SeverityMedium, filePath, stmt.line, "deep_nesting", 5)>>
         ELSE <<>>
    ELSE <<>>

MainCheckVariableNaming(filePath, decl) ==
    Concat([i \in 1..Len(decl.kids) |->
        IF decl.kids[i].kind = "ValueSpec"
        THEN Concat([j \in 1..Len(decl.kids[i].names) |->
                 LET name == decl.kids[i].names[j]
                 IN  IF Len(name) = 1 /\ name \notin {<<"i">>, <<"j">>, <<"k">>}
                     THEN <<Issue(TypeCodeSmell, SeverityLow, filePath, decl.line,
                                  "short_variable_name", 1)>>
                     ELSE <<>>])
        ELSE <<>>])

MainCheckDeprecatedFunctions(filePath, call) ==
    IF FunIsIdent(call) /\ call.kids[1].name \in deprecatedFuncs
    THEN <<Issue(TypeCodeSmell, SeverityMedium, filePath, call.line, "deprecated_function", 2)>>
    ELSE <<>>

MainCheckErrorHandling(filePath, call) ==
    IF FunIsIdent(call)
    THEN Concat([i \in 1..Len(riskyFuncs) |->
            IF call.kids[1].name = riskyFuncs[i]
            THEN <<Issue(TypeBug, SeverityMedium, filePath, call.line,
                         "missing_error_handling", 3)>>
            ELSE <<>>])
    ELSE <<>>

\* what the visit of one node of the tree adds
MainVisit(filePath, n, content) ==
    IF n.kind = "FuncDecl"
    THEN LET c == MainAnalyzeFunctionComplexity(filePath, n)
         IN  [issues |-> c.issues \o MainCheckFunctionNaming(filePath, n)
                             \o MainCheckFunctionSize(filePath, n),
              complexity |-> c.complexity]
    ELSE [issues |->
              IF n.kind = "IfStmt" THEN MainCheckDeepNesting(filePath, n, content)
              ELSE IF n.kind = "GenDecl" THEN MainCheckVariableNaming(filePath, n)
              ELSE IF n.kind = "CallExpr"
              THEN MainCheckDeprecatedFunctions(filePath, n)
                   \o MainCheckErrorHandling(filePath, n)
              ELSE <<>>,
          complexity |-> 0]

RECURSIVE MainComplexitySum(_)
MainComplexitySum(vs) ==
    IF vs = <<>> THEN 0 ELSE Head(vs).complexity + MainComplexitySum(Tail(vs))

MainAnalyzeAST(ca, filePath, node, content) ==
    LET ns == Preorder(node)
        visits == [i \in 1..Len(ns) |-> MainVisit(filePath, ns[i], content)]
        funcs == SelectSeq(visits, LAMBDA v : v.complexity > 0)
    IN  [ca EXCEPT
            !.issues = @ \o Concat([i \in 1..Len(visits) |-> visits[i].issues]),
            !.metrics.CyclomaticComplexity = @ + MainComplexitySum(funcs)]

MainSecretPatterns ==
    << Lit(<<"p", "a", "s", "s", "w", "o", "r", "d">>) \o Assign \o <<NotAtLeast(Quote, 1), One(Quote)>>,
       Lit(<<"s", "e", "c", "r", "e", "t">>) \o Assign \o <<NotAtLeast(Quote, 1), One(Quote)>>,
       Lit(<<"a", "p", "i">>) \o Sep \o Lit(<<"k", "e", "y">>) \o Assign \o <<NotAtLeast(Quote, 1), One(Quote)>>,
       Lit(<<"t", "o", "k", "e", "n">>) \o Assign \o <<NotAtLeast(Quote, 1), One(Quote)>>,
       Lit(<<"a", "w", "s">>) \o Sep \o Lit(<<"a", "c", "c", "e", "s", "s">>) \o Sep \o Lit(<<"k", "e", "y">>) \o Assign
           \o <<NotAtLeast(Quote, 1), One(Quote)>> >>

MainCheckHardcodedSecrets(filePath, lineNum, line) ==
    Concat([i \in 1..Len(MainSecretPatterns) |->
        IF MatchString(MainSecretPatterns[i], line)
        THEN <<Issue(TypeVulnerability, SeverityHigh, filePath, lineNum,
                     "hardcoded_secret", 10)>>
        ELSE <<>>])

MainCheckLineLength(filePath, lineNum, line) ==
    IF Len(line) > 120
    THEN <<Issue(TypeCodeSmell, SeverityLow, filePath, lineNum, "long_line", 2)>>
    ELSE <<>>

MainSqlPatterns ==
    << Lit(<<"q", "u", "e", "r", "y">>) \o Assign \o <<AnyStar>> \o Lit(<<"%", "s">>) \o <<AnyStar, One(Quote)>>,
       Sprintf \o Lit(<<"s", "e", "l", "e", "c", "t">>) \o <<AnyStar>> \o Lit(<<"%", "s">>) \o <<AnyStar, One(Quote)>>,
       Sprintf \o Lit(<<"i", "n", "s", "e", "r", "t">>) \o <<AnyStar>> \o Lit(<<"%", "s">>) \o <<AnyStar, One(Quote)>>,
       Sprintf \o Lit(<<"u", "p", "d", "a", "t", "e">>) \o <<AnyStar>> \o Lit(<<"%", "s">>) \o <<AnyStar, One(Quote)>> >>

MainCheckSQLInjection(filePath, lineNum, line) ==
    Concat([i \in 1..Len(MainSqlPatterns) |->
        IF MatchString(MainSqlPatterns[i], line)
        THEN <<Issue(TypeVulnerability, SeverityHigh, filePath, lineNum, "sql_injection", 15)>>
        ELSE <<>>])

MainCheckDocumentation(filePath, content) ==
    Concat([i \in 1..Len(content) |->
        IF /\ HasPrefix(TrimSpace(content[i]), <<"f", "u", "n", "c", " ">>)
           /\ ~Contains(content[i], <<"f", "u", "n", "c", " ", "m", "a", "i", "n">>)
           /\ Contains(content[i], <<"(">>)
           /\ (i = 1 \/ ~HasPrefix(TrimSpace(content[i - 1]), <<"/", "/">>))
        THEN <<Issue(TypeCodeSmell, SeverityLow, filePath, i, "missing_documentation", 3)>>
        ELSE <<>>])

\* checkTodoComments and checkUnusedCode are those of structure.go, word for
\* word; checkTodoComments is called twice on every line
MainAnalyzeFileContent(ca, filePath, content) ==
    [ca EXCEPT !.issues =
        @ \o Concat([i \in 1..Len(content) |->
                 MainCheckHardcodedSecrets(filePath, i, content[i])
                 \o checkTodoComments(filePath, i, content[i])
                 \o checkTodoComments(filePath, i, content[i])
                 \o MainCheckLineLength(filePath, i, content[i])
                 \o MainCheckSQLInjection(filePath, i, content[i])
                 \o checkUnusedCode(filePath, i, content[i])])
          \o MainCheckDocumentation(filePath, content)]

MainUpdateMetrics(ca, content) ==
    LET testFiles ==
            IF \E i \in 1..Len(content) : Contains(content[i], <<"f", "u", "n", "c", " ", "T", "e", "s", "t">>) THEN 1 ELSE 0
    IN  [ca EXCEPT
            !.metrics.LinesOfCode = @ + Len(content),
            !.metrics.TestCoverage =
                IF ca.filesCount > 0 THEN Rat(testFiles * 100, ca.filesCount) ELSE @]

\* what analyzeFile does with the file f it has read at filePath
MainAnalyzeRead(ca1, filePath, f) ==
    IF f.readErr
    THEN addIssue(ca1, Issue(TypeError, SeverityHigh, filePath, 1, "read_error", 1))
    ELSE IF f.parseErr
    THEN addIssue(ca1, Issue(TypeError, SeverityHigh, filePath, 1, "parse_error", 1))
    ELSE MainUpdateMetrics(
             MainAnalyzeFileContent(MainAnalyzeAST(ca1, filePath, f.ast, f.lines),
                                    filePath, f.lines),
             f.lines)

MainAnalyzeFile(ca, filePath) ==
    MainAnalyzeRead([ca EXCEPT !.filesCount = @ + 1], filePath, ReadFile(filePath))

\* the callback AnalyzeProject hands to filepath.WalkDir
MainWalkFunc(ca, cb) ==
    IF cb.err THEN Walked(ca, TRUE, FALSE)
    ELSE IF ~cb.isDir /\ HasSuffix(cb.path, <<".", "g", "o">>)
            /\ ~Contains(cb.path, <<"v", "e", "n", "d", "o", "r", "/">>) /\ ~Contains(cb.path, <<".", "g", "i", "t", "/">>)
    THEN Walked(MainAnalyzeFile(ca, cb.path), FALSE, TRUE)
    ELSE Walked(ca, FALSE, FALSE)

\* the Report AnalyzeProject assembles once the walk is over
MainReport(ca, projectPath) ==
    [ProjectPath |-> projectPath,
     Issues |-> ca.issues,
     Metrics |-> ca.metrics,
     FilesAnalyzed |-> ca.filesCount,
     IssuesSummary |-> EmptyMap,
     Score |-> Rat(100, 1),
     Grade |-> "A"]

\* the projects handed to the command: the trees, and a path that is not there
MainPaths == {Roots[i].name : i \in 1..Len(Roots)} \cup {<<"g", "o", "n", "e">>}

MainWalkReturn(r, cbs, projectPath) ==
    /\ Install(r.ca)
    /\ last' = [op |-> "main.walkFunc", arg |-> Head(cbs), ret |-> r.err,
                analyzed |-> r.analyzed]
    /\ options' = [options EXCEPT !.ProjectPath = projectPath]
    /\ IF r.err
       THEN /\ pc' = "idle" /\ walk' = <<>> /\ report' = <<>> /\ err' = TRUE
       ELSE IF Tail(cbs) = <<>>
       THEN /\ pc' = "idle" /\ walk' = <<>> /\ err' = FALSE
            /\ report' = <<MainReport(r.ca, projectPath)>>
       ELSE /\ pc' = "walking" /\ walk' = Tail(cbs) /\ report' = <<>> /\ err' = FALSE

MainWalkCallback(ca, cbs, projectPath) ==
    MainWalkReturn(MainWalkFunc(ca, Head(cbs)), cbs, projectPath)

\* ca.AnalyzeProject(projectPath): up to the return of the first callback;
\* options.ProjectPath keeps the argument of the call in progress
MainAnalyzeProjectCall(projectPath) ==
    /\ pc = "idle"
    /\ runs < MaxRuns
    /\ MainWalkCallback([CA EXCEPT !.stdout = @ + 1], WalkDir(projectPath), projectPath)
    /\ runs' = runs + 1
    /\ runStart' = CA
    /\ before' = CA
    /\ UNCHANGED <<calls, processed>>

\* the next callback of the walk
MainWalkNext ==
    /\ pc = "walking"
    /\ MainWalkCallback(CA, walk, options.ProjectPath)
    /\ before' = CA
    /\ UNCHANGED <<runs, calls, processed, runStart>>

InitMain ==
    /\ options = Opts(<<>>, FALSE, <<>>, FALSE)
    /\ issues = MainNew.issues
    /\ metrics = MainNew.metrics
    /\ filesCount = MainNew.filesCount
    /\ rules = MainNew.rules
    /\ stdout = MainNew.stdout
    /\ pc = "idle"
    /\ walk = <<>>
    /\ report = <<>>
    /\ err = FALSE
    /\ runs = 0
    /\ calls = [add |-> 0, register |-> 0, engine |-> 0]
    /\ processed = <<>>
    /\ runStart = MainNew
    /\ before = MainNew
    /\ last = [op |-> "NewCodeAnalyzer", arg |-> Nil, ret |-> Nil, analyzed |-> FALSE]

NextMain ==
    \/ \E projectPath \in MainPaths : MainAnalyzeProjectCall(projectPath)
    \/ MainWalkNext

SpecMain == InitMain /\ [][NextMain]_vars

(***************************************************************************)
(* Properties of the analyzer and of the rule engine.                      *)
(***************************************************************************)
\* the number of issues of is carrying the severity, resp. the kind
SeverityCount(is, severity) == Cardinality({i \in 1..Len(is) : is[i].Severity = severity})
TypeCount(is, type) == Cardinality({i \in 1..Len(is) : is[i].Type = type})

\* AnalyzeProject has returned, and nothing of a later run has happened
Returned == pc = "idle" /\ runs > 0

\* clamp(100 - 10 high - 5 medium - low - 2 max(0, cc / fc - 10), 0, 100), as a
\* fraction over fc = ca.filesCount >= 1
ExpectedScore(ca) ==
    LET fc == ca.filesCount
        points == 100 - 10 * SeverityCount(ca.issues, SeverityHigh)
                      - 5 * SeverityCount(ca.issues, SeverityMedium)
                      - SeverityCount(ca.issues, SeverityLow)
        excess == max(0, ca.metrics.CyclomaticComplexity - 10 * fc)
        num == points * fc - 2 * excess
    IN  Rat(max(0, IF num > 100 * fc THEN 100 * fc ELSE num), fc)

\* C1: in every state of the analyzer with files_analyzed >= 1, calculateScore
\* returns clamp(100 - 10 high_count - 5 medium_count - low_count -
\* complexity_penalty, 0, 100), the counts being those of the accumulated
\* issues of each severity and complexity_penalty being
\* 2 max(0, cyclomatic_complexity / files_analyzed - 10).
C1_ScoreFormula ==
    filesCount >= 1 => RatEq(calculateScore(CA), ExpectedScore(CA))

\* files were analyzed, their average complexity is above 10, there are issues,
\* and the score lies strictly between the two clamps
C1_Witness ==
    /\ filesCount >= 1
    /\ metrics.CyclomaticComplexity > 10 * filesCount
    /\ SeverityCount(issues, SeverityHigh) > 0
    /\ SeverityCount(issues, SeverityMedium) > 0
    /\ RatLess(RatZero, calculateScore(CA))
    /\ RatLessInt(calculateScore(CA), 100)

Grades == {"A", "B", "C", "D", "F"}

\* the lower-inclusive bands of the grades
GradeBands(score, grade) ==
    /\ grade \in Grades
    /\ grade = "A" <=> RatGeqInt(score, 90)
    /\ grade = "B" <=> (RatGeqInt(score, 80) /\ RatLessInt(score, 90))
    /\ grade = "C" <=> (RatGeqInt(score, 70) /\ RatLessInt(score, 80))
    /\ grade = "D" <=> (RatGeqInt(score, 60) /\ RatLessInt(score, 70))
    /\ grade = "F" <=> RatLessInt(score, 60)

\* C2: every Report AnalyzeProject returns has 0 <= score <= 100 and a grade
\* among A, B, C, D, F fixed by the score alone: A iff score >= 90, B iff
\* 80 <= score < 90, C iff 70 <= score < 80, D iff 60 <= score < 70, F iff
\* score < 60.
C2_ScoreAndGrade ==
    report # <<>> =>
        /\ RatGeqInt(report[1].Score, 0)
        /\ ~RatLess(Rat(100, 1), report[1].Score)
        /\ GradeBands(report[1].Score, report[1].Grade)

\* a Report whose score is exactly the lower end of band B
C2_Witness ==
    /\ report # <<>>
    /\ report[1].FilesAnalyzed > 0
    /\ RatEq(report[1].Score, Rat(80, 1))
    /\ report[1].Grade = "B"

Severities == {SeverityLow, SeverityMedium, SeverityHigh}
Kinds == {TypeBug, TypeVulnerability, TypeCodeSmell, TypeError}

\* summary gives, for each severity and each kind, its number of issues in is
SummaryCounts(summary, is) ==
    /\ \A severity \in Severities : Get(summary, severity) = SeverityCount(is, severity)
    /\ \A kind \in Kinds : Get(summary, kind) = TypeCount(is, kind)

\* C3: after any sequence of addIssue and analyzeFile, getIssuesSummary gives
\* for each severity label and each kind label exactly the number of
\* accumulated issues carrying it, and the summary of a Report gives these
\* counts over the Report's issues.
C3_SummaryCounts ==
    /\ SummaryCounts(getIssuesSummary(CA), issues)
    /\ report # <<>> => SummaryCounts(report[1].IssuesSummary, report[1].Issues)

\* a Report over issues added directly and issues of analyzed files, several
\* of them sharing a severity and a kind
C3_Witness ==
    /\ report # <<>>
    /\ calls.add > 0
    /\ report[1].FilesAnalyzed > 0
    /\ TypeCount(report[1].Issues, TypeCodeSmell) >= 2
    /\ TypeCount(report[1].Issues, TypeBug) >= 1
    /\ SeverityCount(report[1].Issues, SeverityHigh) >= 2
    /\ Len(issues) > Len(report[1].Issues)

\* the last step was analyzeFile on a file that cannot be read or parsed
FailedFile ==
    /\ last.op = "walkFunc"
    /\ last.analyzed
    /\ ReadFile(last.arg.path).readErr \/ ReadFile(last.arg.path).parseErr

\* C4: analyzeFile on a file that cannot be read, resp. parsed, adds one to
\* files_analyzed, appends exactly one issue (kind error, severity high, rule
\* read_error resp. parse_error), runs no rule on the file (no issue and no
\* output of a rule) and leaves the Metrics as they were.
C4_FailedFile ==
    FailedFile =>
        /\ filesCount = before.filesCount + 1
        /\ issues = Append(before.issues,
                           Issue(TypeError, SeverityHigh, last.arg.path, 1,
                                 IF ReadFile(last.arg.path).readErr
                                 THEN "read_error" ELSE "parse_error", 1))
        /\ metrics = before.metrics
        /\ stdout = before.stdout + (IF options.Verbose THEN 1 ELSE 0)
        /\ rules = before.rules

\* a file with lines that does not parse, met after files that did
C4_Witness ==
    /\ FailedFile
    /\ ReadFile(last.arg.path).parseErr
    /\ Len(ReadFile(last.arg.path).lines) > 0
    /\ before.metrics.LinesOfCode > 0
    /\ before.issues # <<>>

\* the callbacks filepath.WalkDir makes when walkFunc returns the errors it is given
Delivered(root) ==
    LET cbs == WalkDir(root)
    IN  IF \E i \in 1..Len(cbs) : cbs[i].err
        THEN SubSeq(cbs, 1, CHOOSE i \in 1..Len(cbs) :
                                cbs[i].err /\ \A j \in 1..(i - 1) : ~cbs[j].err)
        ELSE cbs

\* the root itself cannot be enumerated: os.Lstat or os.ReadDir fails on it
RootFails(root) ==
    \E i \in 1..Len(WalkDir(root)) : WalkDir(root)[i].path = root /\ WalkDir(root)[i].err

\* C5: AnalyzeProject returns an error only if the root directory itself
\* cannot be enumerated; no failure of an entry below the root (a file that
\* cannot be read or parsed, an error the walk reports for a sub-entry) makes
\* it return an error.
C5_ErrorOnlyForRoot ==
    (Returned /\ err) => RootFails(options.ProjectPath)

RootExists(root) == \E i \in 1..Len(Roots) : Roots[i].name = root

\* no regular file below root is a Go source file
NoSourceFiles(root) ==
    \A i \in 1..Len(WalkDir(root)) :
        WalkDir(root)[i].isDir \/ ~HasSuffix(WalkDir(root)[i].path, <<".", "g", "o">>)

\* C6: AnalyzeProject returns exactly one of a Report and an error: an error
\* and a nil Report for a root that does not exist, whatever was processed
\* before, and a Report and no error for an existing root with no source files.
C6_ReportOrError ==
    Returned =>
        /\ err <=> report = <<>>
        /\ ~RootExists(options.ProjectPath) => (err /\ report = <<>>)
        /\ (/\ RootExists(options.ProjectPath)
            /\ ~RootFails(options.ProjectPath)
            /\ NoSourceFiles(options.ProjectPath)) => (report # <<>> /\ ~err)

\* C7: a project with zero processed source files yields a Report with
\* files_analyzed = 0, score 0, grade F and QualityTrends whose every field is
\* zero or empty.
C7_NoFilesReport ==
    (report # <<>> /\ report[1].FilesAnalyzed = 0) =>
        /\ RatEq(report[1].Score, RatZero)
        /\ report[1].Grade = "F"
        /\ report[1].Trends = ZeroTrends

\* a Report of a project without source files, on an analyzer that holds
\* a vulnerability added directly
C7_Witness ==
    /\ report # <<>>
    /\ report[1].FilesAnalyzed = 0
    /\ TypeCount(report[1].Issues, TypeVulnerability) > 0

\* path lies inside a directory named dir
InsideDir(path, dir) ==
    \E i \in 1..(Len(path) - Len(dir)) :
        /\ SubSeq(path, i, i + Len(dir)) = dir \o <<"/">>
        /\ i = 1 \/ path[i - 1] = "/"

\* the callback is for a non-directory path that passes the four filters
Survives(opts, cb) ==
    /\ ~cb.err
    /\ ~cb.isDir
    /\ HasSuffix(cb.path, <<".", "g", "o">>)
    /\ ~InsideDir(cb.path, <<"v", "e", "n", "d", "o", "r">>)
    /\ ~InsideDir(cb.path, <<".", "g", "i", "t">>)
    /\ opts.IncludeTests \/ ~HasSuffix(cb.path, <<"_", "t", "e", "s", "t", ".", "g", "o">>)
    /\ \A i \in 1..Len(opts.ExcludeFiles) : ~Match(opts.ExcludeFiles[i], Base(cb.path))

\* C8: after AnalyzeProject, files_analyzed has grown by the number of walked
\* non-directory paths that pass all filters (name ending in .go, not inside
\* a vendor or .git directory, not ending in _test.go unless include_tests,
\* base name matching no exclude glob), the files that fail to read or parse
\* included; and a path that is filtered out changes neither the file counter
\* nor the issues nor the metrics.
C8_FilesAnalyzed ==
    /\ Returned =>
          filesCount - runStart.filesCount =
              Cardinality({i \in 1..Len(Delivered(options.ProjectPath)) :
                              Survives(options, Delivered(options.ProjectPath)[i])})
    /\ (last.op = "walkFunc" /\ ~Survives(options, last.arg)) =>
          /\ filesCount = before.filesCount
          /\ issues = before.issues
          /\ metrics = before.metrics

\* the issues each rule returns on each file handed to the engine
RuleIssues ==
    [path \in EnginePaths |->
        [rule \in AllRules |->
            RuleCheck(rule, path, ReadFile(path).ast, ReadFile(path).lines).issues]]

\* the issues of every rule of rs on the file at path, one rule after the other
EachRuleInOrder(rs, path) == Concat([i \in 1..Len(rs) |-> RuleIssues[path][rs[i]]])

\* C9: Engine.AnalyzeFile returns the issue lists of all registered rules
\* concatenated in registration order, nothing removed: NewEngine registers
\* complexity, security, naming, structure, documentation, error_handling in
\* this order, RegisterRule appends at the end (one rule more, the earlier
\* ones where they were, a rule id twice if given twice), and a rule
\* registered twice gives its issues twice.
C9_RegistrationOrder ==
    /\ NewEngine = DefaultRules
    /\ Len(rules) = Len(DefaultRules) + calls.register
    /\ SubSeq(rules, 1, Len(DefaultRules)) = DefaultRules
    /\ last.op = "RegisterRule" => rules = before.rules \o <<last.arg>>
    /\ last.op = "Engine.AnalyzeFile" => last.ret = EachRuleInOrder(rules, last.arg)

\* Engine.AnalyzeFile on a file with a long line, the structure rule being
\* registered twice: the long line is reported twice
C9_Witness ==
    /\ last.op = "Engine.AnalyzeFile"
    /\ Len(rules) = Len(DefaultRules) + 1
    /\ rules[Len(rules)] = "structure"
    /\ Cardinality({i \in 1..Len(last.ret) : last.ret[i].Rule = "long_line"}) = 2

\* C10: Engine.AnalyzeFile with the default rules has no effect but its
\* result: the engine's rules and the analyzer's state are as before, and
\* nothing is written to standard output.
C10_NoSideEffect ==
    (last.op = "Engine.AnalyzeFile" /\ before.rules = DefaultRules) =>
        /\ rules = before.rules
        /\ issues = before.issues
        /\ metrics = before.metrics
        /\ filesCount = before.filesCount
        /\ stdout = before.stdout

\* the function declarations with a body of the file f
Functions(f) ==
    LET nodes == Preorder(f.ast)
    IN  {n \in {nodes[i] : i \in 1..Len(nodes)} : n.kind = "FuncDecl" /\ n.hasBody}

\* 1 + the branching statements inside fn + the clauses of its switch, type
\* switch and select statements
BranchingComplexity(fn) == 1 + CountKinds(Preorder(fn), BranchKinds \cup {"CommClause"})

\* the issues of is with the rule id at the line
IssuesAt(is, rule, line) == {i \in 1..Len(is) : is[i].Rule = rule /\ is[i].Line = line}

\* C11: for each function declaration with a body, ComplexityRule takes
\* complexity = 1 + the branching nodes inside it (if, for, range, switch,
\* type-switch and select statements and each case clause of a switch,
\* type-switch or select, each once) and emits exactly one high_complexity
\* issue iff complexity > 10, of severity high iff complexity > 15 and medium
\* otherwise; 5 sequential ifs give complexity 6 and no such issue.
C11_FunctionComplexity ==
    last.op = "ComplexityRule.Check" =>
        \A fn \in Functions(ShapeGo(last.arg)) :
            LET found == IssuesAt(last.ret, "high_complexity", fn.line)
            IN  /\ Cardinality(found) = IF BranchingComplexity(fn) > 10 THEN 1 ELSE 0
                /\ \A i \in found :
                      last.ret[i].Severity =
                          IF BranchingComplexity(fn) > 15 THEN SeverityHigh
                          ELSE SeverityMedium

\* the if statements of the file f, and those with an if statement inside
IfStmts(f) ==
    LET nodes == Preorder(f.ast)
    IN  {n \in {nodes[i] : i \in 1..Len(nodes)} : n.kind = "IfStmt"}

\* the file has one function with a body, five if statements each inside the
\* one before, and no other branching construct
FiveNestedIfs(f) ==
    LET ifs == IfStmts(f)
    IN  /\ Cardinality(Functions(f)) = 1
        /\ \A fn \in Functions(f) : calculateComplexity(fn) = 6
        /\ Cardinality(ifs) = 5
        /\ \A k \in 1..5 : \E n \in ifs : CountKinds(Preorder(n), {"IfStmt"}) = k

\* the files of that kind among those handed to Engine.AnalyzeFile
NestedFiles == {p \in EnginePaths : FiveNestedIfs(ReadFile(p))}

\* C12: for a file whose only function contains five nested if statements
\* and no other branching construct, Engine.AnalyzeFile with the default
\* rules returns at least one issue whose rule is high_complexity.
C12_NestedIfsHighComplexity ==
    (/\ last.op = "Engine.AnalyzeFile"
     /\ rules = NewEngine
     /\ last.arg \in NestedFiles)
        => \E i \in 1..Len(last.ret) : last.ret[i].Rule = "high_complexity"

RECURSIVE SumOver(_)
\* the sum of the numbers of the sequence s
SumOver(s) ==
    IF Len(s) = 0 THEN 0
    ELSE IF Len(s) = 1 THEN s[1]
    ELSE SumOver(SubSeq(s, 1, Len(s) \div 2)) + SumOver(SubSeq(s, Len(s) \div 2 + 1, Len(s)))

\* the sum, over the function declarations of the tree, of the complexity
\* ComplexityRule computes for each
DeclaredComplexity(node) ==
    LET nodes == Preorder(node)
    IN  SumOver([i \in 1..Len(nodes) |->
                    IF nodes[i].kind = "FuncDecl" THEN calculateComplexity(nodes[i]) ELSE 0])

\* the files that are read and parsed, with that sum for each
ParsedPaths == {f[1] : f \in {g \in AllFiles : ~g[2].readErr /\ ~g[2].parseErr}}
FunctionsComplexity == [path \in ParsedPaths |-> DeclaredComplexity(ReadFile(path).ast)]

\* C13: for every successfully parsed file, what updateMetrics adds to
\* Metrics.cyclomatic_complexity is the sum, over the function declarations
\* of the file, of the complexity ComplexityRule computes for the function
\* (1 + the branching nodes inside it), also when the tree has branching
\* nodes outside any function declaration.
C13_FileComplexity ==
    (last.op = "walkFunc" /\ last.analyzed /\ last.arg.path \in ParsedPaths) =>
        metrics.CyclomaticComplexity - before.metrics.CyclomaticComplexity =
            FunctionsComplexity[last.arg.path]

\* C14: SecurityRule.Check on a file containing the line
\* password := "hardcoded_password_123" (a short variable declaration)
\* returns exactly one issue for that line, with rule hardcoded_secret,
\* severity high and kind vulnerability.
C14_ShortDeclarationSecret ==
    (/\ last.op = "SecurityRule.Check"
     /\ SecretLine(last.arg) = <<"\t", "p", "a", "s", "s", "w", "o", "r", "d", " ", ":", "=", " ", "\"", "h", "a", "r", "d", "c", "o", "d", "e", "d", "_", "p", "a", "s", "s", "w", "o", "r", "d", "_", "1", "2", "3", "\"">>) =>
        LET at == {i \in 1..Len(last.ret) : last.ret[i].Line = 4}
        IN  /\ Cardinality(at) = 1
            /\ \A i \in at :
                  /\ last.ret[i].Rule = "hardcoded_secret"
                  /\ last.ret[i].Severity = SeverityHigh
                  /\ last.ret[i].Type = TypeVulnerability

\* the calls of the file f whose callee is pkg.sel for a name of names
CallsOf(f, names) ==
    LET nodes == Preorder(f.ast)
    IN  {n \in {nodes[i] : i \in 1..Len(nodes)} :
            /\ n.kind = "CallExpr"
            /\ Len(n.kids) > 0
            /\ n.kids[1].kind = "SelectorExpr"
            /\ (n.kids[1].kids[1].name \o <<".">> \o n.kids[1].kids[2].name) \in names}

\* C15: for every call expression whose callee is os.Open, json.Marshal,
\* strconv.Atoi or http.Get, ErrorHandlingRule.Check emits one
\* missing_error_handling issue (kind bug, severity medium), and for every
\* call of ioutil.ReadFile, ioutil.WriteFile or ioutil.ReadAll one
\* deprecated_function issue (kind code_smell, severity medium).
C15_RiskyAndDeprecatedCalls ==
    last.op = "ErrorHandlingRule.Check" =>
        /\ \A call \in CallsOf(CallsGo(last.arg), {riskyFuncs[i] : i \in 1..Len(riskyFuncs)}) :
              LET found == IssuesAt(last.ret, "missing_error_handling", call.line)
              IN  /\ Cardinality(found) = 1
                  /\ \A i \in found : /\ last.ret[i].Type = TypeBug
                                      /\ last.ret[i].Severity = SeverityMedium
        /\ \A call \in CallsOf(CallsGo(last.arg), deprecatedFuncs) :
              LET found == IssuesAt(last.ret, "deprecated_function", call.line)
              IN  /\ Cardinality(found) = 1
                  /\ \A i \in found : /\ last.ret[i].Type = TypeCodeSmell
                                      /\ last.ret[i].Severity = SeverityMedium

\* C16: for a line whose leading whitespace is t tabs and s spaces,
\* calculateIndentLevel returns t + floor(s / 4), and checkDeepNesting emits
\* exactly one deep_nesting issue (severity medium) for an if statement iff
\* the indentation depth of its line exceeds 4.
C16_IndentLevel ==
    last.op = "checkDeepNesting" =>
        LET depth == last.arg.tabs + (last.arg.spaces \div 4)
            found == IssuesAt(last.ret, "deep_nesting", 4)
        IN  /\ calculateIndentLevel(IndentLine(last.arg)) = depth
            /\ Cardinality(found) = IF depth > 4 THEN 1 ELSE 0
            /\ \A i \in found : last.ret[i].Severity = SeverityMedium

\* the number of the issues is with the rule id
RuleCount(is, rule) == Cardinality({i \in 1..Len(is) : is[i].Rule = rule})

\* C17: whenever files_analyzed > 0, calculateQualityTrends returns
\* maintainability_index = max(0, 100 - 5 * vulnerability_count
\* - 2 * missing_documentation_count), counting the accumulated issues of
\* kind vulnerability and those whose rule is missing_documentation.
C17_MaintainabilityIndex ==
    (report # <<>> /\ report[1].FilesAnalyzed > 0) =>
        report[1].Trends.MaintainabilityIndex =
            max(0, 100 - 5 * TypeCount(report[1].Issues, TypeVulnerability)
                       - 2 * RuleCount(report[1].Issues, "missing_documentation"))

\* the parsed files whose text contains the test-function marker
TestFiles ==
    {path \in ParsedPaths :
        \E i \in 1..Len(ReadFile(path).lines) :
            Contains(ReadFile(path).lines[i], <<"f", "u", "n", "c", " ", "T", "e", "s", "t">>)}

\* the last step was analyzeFile on a parsed file with the marker
TestFileProcessed ==
    last.op = "walkFunc" /\ last.analyzed /\ last.arg.path \in TestFiles

\* C18: test_coverage is 0 or 100 in every state: 0 until the first parsed
\* file whose text contains func Test is processed, 100 from that step on,
\* whatever files are processed later.
C18_TestCoverage ==
    /\ metrics.TestCoverage \in {0, 100}
    /\ last.op = "New" => metrics.TestCoverage = 0
    /\ last.op # "New" =>
          metrics.TestCoverage =
              IF TestFileProcessed THEN 100 ELSE before.metrics.TestCoverage

\* a file without the marker is processed after one with it
C18_Witness ==
    /\ last.op = "walkFunc"
    /\ last.analyzed
    /\ last.arg.path \in ParsedPaths \ TestFiles
    /\ before.metrics.TestCoverage = 100
    /\ metrics.TestCoverage = 100

\* the place of each message among the recommendations
MessageRank == [security |-> 1, bugs |-> 2, coverage |-> 3, excellent |-> 4]

\* the list holds the message
Recommends(recs, msg) == \E i \in 1..Len(recs) : recs[i].msg = msg

\* C19: generateRecommendations never returns an empty list: it holds the
\* security message iff vulnerability_count > 0, the reliability message iff
\* bug_count > 0, the coverage message iff test_coverage < 70, in the order
\* security, bugs, coverage; the 'quality is excellent' message is present
\* iff none of the three conditions holds, and is then the only element.
C19_Recommendations ==
    report # <<>> =>
        LET recs == report[1].Recommendations
            vulnCount == TypeCount(report[1].Issues, TypeVulnerability)
            bugCount == TypeCount(report[1].Issues, TypeBug)
            coverage == report[1].Metrics.TestCoverage
        IN  /\ Len(recs) > 0
            /\ Recommends(recs, "security") <=> vulnCount > 0
            /\ Recommends(recs, "bugs") <=> bugCount > 0
            /\ Recommends(recs, "coverage") <=> coverage < 70
            /\ \A i, j \in 1..Len(recs) :
                  i < j => MessageRank[recs[i].msg] < MessageRank[recs[j].msg]
            /\ Recommends(recs, "excellent") <=>
                  (vulnCount = 0 /\ bugCount = 0 /\ coverage >= 70)
            /\ Recommends(recs, "excellent") => Len(recs) = 1

\* a Report with all three messages
C19_Witness ==
    /\ report # <<>>
    /\ Len(report[1].Recommendations) = 3
    /\ report[1].FilesAnalyzed > 0

\* the last step was addIssue of a high-severity issue
HighIssueAdded == last.op = "addIssue" /\ last.arg.Severity = SeverityHigh

\* C20: adding one more high-severity issue while files_analyzed and the
\* Metrics stay as they are never increases calculateScore:
\* score(after) <= score(before).
C20_HighIssueLowersScore ==
    HighIssueAdded =>
        /\ filesCount = before.filesCount
        /\ metrics = before.metrics
        /\ ~RatLess(calculateScore(before), calculateScore(CA))

\* the score of an analyzer with files drops by a high-severity issue
C20_Witness ==
    /\ HighIssueAdded
    /\ filesCount > 0
    /\ RatLess(calculateScore(CA), calculateScore(before))
    /\ RatLess(RatZero, calculateScore(CA))

\* the issues of the list as a multiset: each issue with its number of copies
IssueBag(is) ==
    [x \in {is[i] : i \in 1..Len(is)} |-> Cardinality({i \in 1..Len(is) : is[i] = x})]

\* what the comparison of two processing orders looks at
Measured(ca) ==
    [files |-> ca.filesCount,
     lines |-> ca.metrics.LinesOfCode,
     complexity |-> ca.metrics.CyclomaticComplexity,
     coverage |-> ca.metrics.TestCoverage,
     issues |-> IssueBag(ca.issues),
     summary |-> getIssuesSummary(ca),
     score |-> calculateScore(ca),
     grade |-> calculateGrade(calculateScore(ca))]

RECURSIVE InOrder(_, _, _)
\* a new analyzer after analyzeFile on the files of set, in the order of FileOrder
InOrder(ca, i, set) ==
    IF i > Len(FileOrder) THEN ca
    ELSE InOrder(IF FileOrder[i] \in set
                 THEN analyzeFile(ca, Opts(<<"p", "r", "o", "j">>, TRUE, <<>>, FALSE), FileOrder[i])
                 ELSE ca,
                 i + 1, set)

\* for each set of files, the analyzer after processing it in that one order
OneOrder == {<<set, InOrder(New, 1, set)>> : set \in SUBSET FilePaths}

\* C21: for any two orders in which the same set of files is processed by
\* analyzeFile, the final files_analyzed, lines_of_code,
\* cyclomatic_complexity, test_coverage, issue multiset, issues summary,
\* score and grade are equal.
C21_OrderIndependent ==
    last.op = "analyzeFile" =>
        Measured(CA) = Measured(Return(OneOrder, {processed[i] : i \in 1..Len(processed)}))

\* all files processed in an order that leaves the issues in another sequence
C21_Witness ==
    /\ last.op = "analyzeFile"
    /\ Len(processed) = Len(FileOrder)
    /\ issues # Return(OneOrder, FilePaths).issues
    /\ metrics.TestCoverage = 100

\* the Report of the second AnalyzeProject call is there, and the analyzer
\* was new at the first call and untouched between the two
SecondReport == report # <<>> /\ runs = 2 /\ calls.add = 0

\* the Report the first AnalyzeProject call returned: runStart is the
\* analyzer as that call left it
FirstReport == MakeReport(runStart, options)

\* C22: analyzing the same immutable project twice (two calls of
\* AnalyzeProject with the same options) yields two reports with identical
\* Issues (as a set), identical Metrics, and identical score and grade.
C22_Idempotent ==
    SecondReport =>
        /\ {report[1].Issues[i] : i \in 1..Len(report[1].Issues)}
               = {FirstReport.Issues[i] : i \in 1..Len(FirstReport.Issues)}
        /\ report[1].Metrics = FirstReport.Metrics
        /\ RatEq(report[1].Score, FirstReport.Score)
        /\ report[1].Grade = FirstReport.Grade

\* AnalyzeProject has returned a Report, and every issue of the analyzer
\* comes from its analysis (none was added directly)
AnalysisReport == report # <<>> /\ calls.add = 0 /\ rules = NewEngine

\* C23: every issue in a Report produced by AnalyzeProject with the default
\* six rules has severity in {low, medium, high} and kind in {bug,
\* vulnerability, code_smell, error}; hence the three severity counts of the
\* summary and its four kind counts each sum to the number of issues.
C23_SeveritiesAndKinds ==
    AnalysisReport =>
        LET is == report[1].Issues
            summary == report[1].IssuesSummary
        IN  /\ \A i \in 1..Len(is) : is[i].Severity \in Severities /\ is[i].Type \in Kinds
            /\ Get(summary, SeverityLow) + Get(summary, SeverityMedium)
                   + Get(summary, SeverityHigh) = Len(is)
            /\ Get(summary, TypeBug) + Get(summary, TypeVulnerability)
                   + Get(summary, TypeCodeSmell) + Get(summary, TypeError) = Len(is)

\* a Report with issues of all three severities and of three kinds
C23_Witness ==
    /\ AnalysisReport
    /\ \A severity \in Severities : SeverityCount(report[1].Issues, severity) > 0
    /\ \A kind \in {TypeVulnerability, TypeCodeSmell, TypeError} :
          TypeCount(report[1].Issues, kind) > 0

\* the literals known as placeholders
Placeholders ==
    {<<"t", "e", "s", "t">>, <<"p", "l", "a", "c", "e", "h", "o", "l", "d", "e", "r">>, <<"e", "x", "a", "m", "p", "l", "e">>, <<"d", "u", "m", "m", "y">>, <<"y", "o", "u", "r", "_", "k", "e", "y", "_", "h", "e", "r", "e">>}

\* the line matches one of the patterns of hardcoded secrets
SecretMatch(line) == \E i \in 1..Len(secretPatterns) : MatchString(secretPatterns[i], line)

\* the line holds nothing but a comment
CommentLine(line) == HasPrefix(TrimSpace(line), <<"/", "/">>) \/ HasPrefix(TrimSpace(line), <<"/", "*">>)

\* C24: SecurityRule suppresses a hardcoded-secret pattern match exactly
\* when the line is a comment line or the assigned literal is a known
\* placeholder value, whatever the spacing around the assignment operator; a
\* match on a non-comment line with another literal always yields a
\* hardcoded_secret issue of severity high.
C24_FalsePositiveFilter ==
    (last.op = "SecurityRule.Check" /\ SecretMatch(SecretLine(last.arg))) =>
        LET found == IssuesAt(last.ret, "hardcoded_secret", 4)
        IN  /\ found = {} <=>
                  (CommentLine(SecretLine(last.arg)) \/ last.arg.value \in Placeholders)
            /\ \A i \in found : last.ret[i].Severity = SeverityHigh


\* the label of an average complexity of cc / fc, by the four ranges
TrendLabel(cc, fc) ==
    LET avg == Rat(cc, fc)
    IN  IF RatLess(Rat(15, 1), avg) THEN "Very High - Immediate refactoring needed"
        ELSE IF RatLess(Rat(10, 1), avg) THEN "High - Consider refactoring"
        ELSE IF RatLess(Rat(5, 1), avg) THEN "Moderate - Monitor closely"
        ELSE "Good - Well structured code"

SpecialName(name) ==
    name = <<"m", "a", "i", "n">> \/ name = <<"i", "n", "i", "t">> \/ HasPrefix(name, <<"T", "e", "s", "t">>)
    \/ HasPrefix(name, <<"B", "e", "n", "c", "h", "m", "a", "r", "k">>)

\* C26: NamingRule emits a naming_convention issue, of severity low, for
\* every function declaration whose name contains an underscore, unless the
\* name is main or init or starts with Test or Benchmark, whether the name
\* starts with a lowercase or an uppercase letter, and none for a name
\* without underscore.
C26_UnderscoreNames ==
    last.op = "NamingRule.Check" =>
        LET found == IssuesAt(last.ret, "naming_convention", 3)
        IN  /\ found # {} <=> (Contains(last.arg, <<"_">>) /\ ~SpecialName(last.arg))
            /\ \A i \in found : last.ret[i].Severity = SeverityLow

\* C27: shouldFailBuild(report) is true iff issues_summary[high] > 0 or
\* issues_summary[vulnerability] > 0 or grade = F; in particular a report of
\* grade D with only medium and low issues, none a vulnerability, does not
\* fail the build.
C27_QualityGate ==
    last.op = "shouldFailBuild" =>
        LET summary == report[1].IssuesSummary
        IN  /\ last.ret <=> \/ Get(summary, SeverityHigh) > 0
                            \/ Get(summary, TypeVulnerability) > 0
                            \/ report[1].Grade = "F"
            /\ (/\ report[1].Grade = "D"
                /\ SeverityHigh \notin DOMAIN summary
                /\ TypeVulnerability \notin DOMAIN summary) => ~last.ret

\* the gate has passed a report of grade D with medium and low issues only
C27_Witness ==
    /\ last.op = "shouldFailBuild"
    /\ report[1].Grade = "D"
    /\ DOMAIN report[1].IssuesSummary = {SeverityMedium, SeverityLow}
    /\ last.ret = FALSE

\* C28: the Report returned by the analyzer of the root package
\* (AnalyzeProject in src/main.go) has an issues_summary whose count for each
\* severity and each kind equals the number of issues with that attribute in
\* the Report's Issues list.
C28_MainSummary ==
    (report # <<>> /\ last.op = "main.walkFunc") =>
        /\ \A severity \in Severities :
              Get(report[1].IssuesSummary, severity)
                  = SeverityCount(report[1].Issues, severity)
        /\ \A type \in Kinds :
              Get(report[1].IssuesSummary, type) = TypeCount(report[1].Issues, type)

\* the files that cannot be read or do not parse
FailingPaths == {path \in FilePaths : ReadFile(path).readErr \/ ReadFile(path).parseErr}

\* C29: processing one more file that fails to read or parse never increases
\* the project score: from every analyzer state with files_analyzed >= 1,
\* calculateScore after analyzeFile on a failing file is at most
\* calculateScore before it.
C29_FailingFileScore ==
    (/\ last.op = "analyzeFile"
     /\ last.arg \in FailingPaths
     /\ before.filesCount >= 1) =>
        ~RatLess(calculateScore(before), calculateScore(CA))

\* C30: AnalyzeProject never resets what the analyzer has accumulated: a
\* second call on the same CodeAnalyzer over an unchanged project returns a
\* Report whose files_analyzed, number of issues, lines_of_code and
\* cyclomatic_complexity are each exactly twice those of the first Report.
C30_SecondRunDoubles ==
    SecondReport =>
        /\ report[1].FilesAnalyzed = 2 * FirstReport.FilesAnalyzed
        /\ Len(report[1].Issues) = 2 * Len(FirstReport.Issues)
        /\ report[1].Metrics.LinesOfCode = 2 * FirstReport.Metrics.LinesOfCode
        /\ report[1].Metrics.CyclomaticComplexity
               = 2 * FirstReport.Metrics.CyclomaticComplexity

\* the second Report of a project with files, issues, lines and branches
C30_Witness ==
    /\ SecondReport
    /\ FirstReport.FilesAnalyzed > 1
    /\ Len(FirstReport.Issues) > 0
    /\ FirstReport.Metrics.LinesOfCode > 0
    /\ FirstReport.Metrics.CyclomaticComplexity > 0
    /\ report[1].FilesAnalyzed = 2 * FirstReport.FilesAnalyzed
====
